---- MODULE Spec2Model ----
(***************************************************************************)
(* A model of the core of wgpu-mc: the block variant resolver              *)
(* (mc/mod.rs, Block::get_model / Block::get_model_by_key), the chunk mesh *)
(* baker (render/world/chunk.rs, bake) and the frame scheduler             *)
(* (render/graph.rs, RenderGraph::render).                                 *)
(***************************************************************************)
EXTENDS Integers, Sequences, FiniteSets, TLC

\* Option::None; Some(v) is a record with some |-> TRUE.
None == [some |-> FALSE]

\* The RwLock has no writer.
NoThread == 0

\* ------------------------------------------------------------------------
\* Bounds of the model
\* ------------------------------------------------------------------------

\* Threads that call get_model_by_key concurrently.
NumThreads == 3
\* Calls of get_model_by_key started in one behaviour, over all threads.
MaxCalls == 3

Threads == 1..NumThreads

\* ------------------------------------------------------------------------
\* Block variant resolver: mc/mod.rs
\* ------------------------------------------------------------------------

VARIABLES
    blocks,     \* BlockManager.blocks: the IndexMap of blocks, in index order
    keysLock,   \* per block: the RwLock around Multipart.keys
    pc,         \* per thread: where it is in get_model_by_key
    call,       \* per thread: the arguments of its call and the key_string
    mesh,       \* per thread: the mesh of generate_mesh (the local `mesh`)
    ret,        \* per thread: what its last call returned
    returned,   \* history: every (block, key_string, handle) of a call that returned Some
    ncalls,     \* history: calls started so far
    narcs       \* history: Arc<ModelMesh> allocations made by generate_mesh so far

resolverVars == <<blocks, keysLock, pc, call, mesh, ret, returned, ncalls, narcs>>

\* The chunk mesh baker (render/world/chunk.rs): one call of bake.
VARIABLES
    dim,          \* the chunk geometry: CHUNK_WIDTH, CHUNK_SECTION_HEIGHT, sections
    world,        \* state_provider.get_state: the blocks of the world
    sectionEmpty, \* state_provider.is_section_empty: its answer per section
    rejects,      \* filter: the state keys it rejects
    chunkPos,     \* chunk.pos
    block_index,  \* the scan index of the loop
    vertices,     \* the output built so far
    bakePc        \* "loop" while bake runs, "done" on return, "panic" on a panic

bakeVars == <<dim, world, sectionEmpty, rejects, chunkPos, block_index, vertices,
              bakePc>>

\* The frame scheduler (render/graph.rs): RenderGraph::render.
VARIABLES
    graph,              \* the RenderGraph: config, pipelines, resources
    scene,              \* the Scene: loaded sections, entity instance batches
    providers,          \* the geometry map handed to render: its keys
    framePc,            \* "idle", "begin" (opening a pass), "draw", "sections" and
                        \* "entities" (in the loop of the arm), "panic"
    pidx,               \* the position of the loop in self.pipelines
    should_clear_depth, \* the local flag of render
    passes,             \* the render passes opened in the current frame
    draws,              \* the draws issued in the current frame
    nframes             \* history: frames started so far

frameVars == <<graph, scene, providers, framePc, pidx, should_clear_depth, passes,
               draws, nframes>>

\* The render graph compiler (render/graph.rs): RenderGraph::new.
VARIABLES
    compileIn,  \* the arguments of RenderGraph::new, with the atlases of wm
    files,      \* the paths the resource provider can read
    compiled    \* history: the outcome of each call of RenderGraph::new so far

compileVars == <<compileIn, files, compiled>>

\* The compiled pipelines of the renderer (lib.rs): WmRenderer.pipelines.
VARIABLES
    wmPipelines,  \* the ArcSwap: the RenderPipelineManager it points to
    buildPc,      \* the thread in build_pipelines: "idle", or "store" after init
    newPipelines, \* the local `pipelines` of build_pipelines
    observed,     \* per render thread: what its last load of the ArcSwap gave
    nbuilds       \* history: calls of build_pipelines so far

swapVars == <<wmPipelines, buildPc, newPipelines, observed, nbuilds>>

\* The locks of the scene: scene.section_storage and scene.entity_instances.
VARIABLES
    section_storage,  \* the RwLock around the sections: its readers and writer
    storagePc,        \* per other thread: "out", "reading" or "writing"
    entity_instances, \* the Mutex around the entity instances: its holder
    instances         \* the local `instances` of render: the clone of the map

storageVars == <<section_storage, storagePc, entity_instances, instances>>

\* schemas::blockstates::multipart::StateValue
BoolValue(b) == [tag |-> "Bool", b |-> b]
StringValue(s) == [tag |-> "String", s |-> s]

\* The text of a StateValue in the key string (mod.rs 75-83).
ValueText(value) ==
    IF value.tag = "Bool" THEN (IF value.b THEN "true" ELSE "false") ELSE value.s

\* format!("{}={}", key, value) (mod.rs 72-84)
FormatPair(p) == p[1] \o "=" \o ValueText(p[2])

\* .collect::<Vec<String>>().join(",") over the pairs in the caller's order
\* (mod.rs 68-87)
RECURSIVE JoinPairs(_)
JoinPairs(key) ==
    IF key = <<>> THEN ""
    ELSE IF Len(key) = 1 THEN FormatPair(key[1])
    ELSE FormatPair(key[1]) \o "," \o JoinPairs(Tail(key))

KeyString(key) == JoinPairs(key)

\* `n as u16`
AsU16(n) == n % 65536

\* IndexMap::contains_key
HasKey(entries, k) == \E i \in 1..Len(entries) : entries[i].key = k

\* IndexMap::get_full(..).0: the 0-based index of the entry with this key.
GetFull(entries, k) == (CHOOSE i \in 1..Len(entries) : entries[i].key = k) - 1

\* An insert that removes the entry of an existing key and appends the new one.
IndexMapInsertMoveToEnd(entries, k, v) ==
    Append(SelectSeq(entries, LAMBDA e : e.key # k), [key |-> k, value |-> v])

\* An insert that leaves the entry of an existing key as it is.
IndexMapInsertKeepFirst(entries, k, v) ==
    IF ~HasKey(entries, k)
    THEN Append(entries, [key |-> k, value |-> v])
    ELSE entries

\* IndexMap::insert: a new key is appended; an existing key keeps its index and
\* has its value replaced.
IndexMapInsert(entries, k, v) ==
    IF ~HasKey(entries, k)
    THEN Append(entries, [key |-> k, value |-> v])
    ELSE [entries EXCEPT ![GetFull(entries, k) + 1].value = v]

\* Indexing the candidate meshes of a Variants entry by the seed: the random
\* variant selection the TODO of mod.rs 53 leaves out.
CandidateBySeed(candidates, seed) == candidates[(seed % Len(candidates)) + 1]

\* .1[0] (mod.rs 54) and full.2[0] (mod.rs 106): the first candidate mesh of
\* the entry; _seed is not read.
Candidate(candidates, seed) == candidates[1]

\* A lookup that answers an absent state string with the first entry.
VariantsGetFallback(variants, k, seed) ==
    LET i == IF HasKey(variants, k) THEN GetFull(variants, k) ELSE 0
    IN [some |-> TRUE, mesh |-> Candidate(variants[i + 1].value, seed),
        handle |-> AsU16(i)]

\* Block::Variants arm of get_model_by_key (mod.rs 104-107): get_full(..)? is
\* None for an absent state string; a present one gives (full.2[0], full.0 as u16).
VariantsGet(variants, k, seed) ==
    IF ~HasKey(variants, k) THEN None
    ELSE [some |-> TRUE,
          mesh |-> Candidate(variants[GetFull(variants, k) + 1].value, seed),
          handle |-> AsU16(GetFull(variants, k))]

\* A hit that answers with the length of the cache, like the miss path.
HitHandleFromLength(entries, k) == AsU16(Len(entries)) - 1

\* The handle of a Multipart cache hit: full.0 as u16 (mod.rs 93).
HitHandle(entries, k) == AsU16(GetFull(entries, k))

\* The handle of a Multipart insert: multipart_write.len() as u16 - 1 (mod.rs 102).
InsertHandleOffByOne(entries, k) == AsU16(Len(entries))

InsertHandle(entries, k) == AsU16(Len(entries)) - 1

\* The cases of the Multipart block: a case applies when every property it
\* names is supplied with that text (exact literal match).
MultipartCases ==
    << [when |-> <<>>, apply |-> "post"],
       [when |-> << <<"north", "true">> >>, apply |-> "side_north"],
       [when |-> << <<"up", "true">> >>, apply |-> "side_up"] >>

CaseApplies(case, key) ==
    \A i \in 1..Len(case.when) :
        \E j \in 1..Len(key) :
            key[j][1] = case.when[i][1] /\ ValueText(key[j][2]) = case.when[i][2]

\* Multipart::generate_mesh (mod.rs 119-142): the models of the cases that apply,
\* in case order, baked into one mesh held by a fresh Arc.
RECURSIVE AppliedModels(_, _)
AppliedModels(cases, key) ==
    IF cases = <<>> THEN <<>>
    ELSE (IF CaseApplies(Head(cases), key) THEN <<Head(cases).apply>> ELSE <<>>)
         \o AppliedModels(Tail(cases), key)

GenerateMesh(cases, key, arc) == [parts |-> AppliedModels(cases, key), arc |-> arc]

\* The blocks the resolver is exercised on: one Variants block whose table was
\* built at load time (mod.rs 266-292) and one Multipart block with an empty
\* cache (mod.rs 293-296).
VariantsBlock ==
    [type |-> "Variants",
     variants |-> << [key |-> "north=false",
                      value |-> << [parts |-> <<"v_plain">>, arc |-> -1] >>],
                     [key |-> "north=true",
                      value |-> << [parts |-> <<"v_north_a">>, arc |-> -2],
                                   [parts |-> <<"v_north_b">>, arc |-> -3] >>] >>]

MultipartBlock ==
    [type |-> "Multipart", cases |-> MultipartCases, keys |-> <<>>]

ResolverBlocks == <<VariantsBlock, MultipartBlock>>

\* The property lists callers resolve.
KeyInputs ==
    { << <<"north", BoolValue(TRUE)>> >>,
      << <<"north", BoolValue(TRUE)>>, <<"up", BoolValue(TRUE)>> >>,
      << <<"up", BoolValue(TRUE)>>, <<"north", BoolValue(TRUE)>> >> }

SeedInputs == {0, 7}

FreeLock == [readers |-> {}, writer |-> NoThread]

ResolverIdle ==
    /\ keysLock = [b \in 1..Len(ResolverBlocks) |-> FreeLock]
    /\ pc = [t \in Threads |-> "idle"]
    /\ call = [t \in Threads |-> None]
    /\ mesh = [t \in Threads |-> None]
    /\ ret = [t \in Threads |-> None]
    /\ returned = {}
    /\ ncalls = 0
    /\ narcs = 0

ResolverInit ==
    /\ blocks = ResolverBlocks
    /\ ResolverIdle

\* Another thread is inside a call for the same block and key string.
Overlaps(t, b, ks) ==
    \E u \in Threads \ {t} :
        pc[u] # "idle" /\ call[u].block = b /\ call[u].key_string = ks

\* get_model_by_key is entered: the key string is built (mod.rs 59-87). The
\* result slot of the thread is empty until the call returns. No step before
\* the Variants arm can read the seed argument, so it is drawn there.
BeginCall(t, b, key) ==
    /\ UNCHANGED <<bakeVars, frameVars, compileVars, swapVars, storageVars>>
    /\ pc[t] = "idle"
    /\ ncalls < MaxCalls
    /\ call' = [call EXCEPT ![t] =
                    [some |-> TRUE, block |-> b, key |-> key,
                     key_string |-> KeyString(key)]]
    /\ pc' = [pc EXCEPT ![t] =
                    IF blocks[b].type = "Multipart" THEN "read" ELSE "variants"]
    /\ ncalls' = ncalls + 1
    /\ ret' = [ret EXCEPT ![t] = None]
    /\ UNCHANGED <<blocks, keysLock, mesh, returned, narcs>>

Call(t) ==
    \E b \in 1..Len(blocks), key \in KeyInputs :
        BeginCall(t, b, key)

\* A caller that starts only when no call for the same block and key string is
\* in flight: calls for one state string happen in sequence, calls for other
\* state strings run concurrently with them.
CallInSequence(t) ==
    \E b \in 1..Len(blocks), key \in KeyInputs :
        /\ ~Overlaps(t, b, KeyString(key))
        /\ BeginCall(t, b, key)

Return(t, value) ==
    /\ ret' = [ret EXCEPT ![t] = value]
    /\ returned' =
          IF value = None THEN returned
          ELSE returned \cup
                 {[block |-> call[t].block, key_string |-> call[t].key_string,
                   handle |-> value.handle]}
    /\ pc' = [pc EXCEPT ![t] = "idle"]
    /\ call' = [call EXCEPT ![t] = None]
    /\ mesh' = [mesh EXCEPT ![t] = None]

\* Block::Variants arm (mod.rs 104-107), for every seed the call can have been
\* given: an exact-match lookup in the table; None when the key string is
\* absent.
VariantsLookup(t) ==
    /\ UNCHANGED <<bakeVars, frameVars, compileVars, swapVars, storageVars>>
    /\ pc[t] = "variants"
    /\ \E seed \in SeedInputs :
          Return(t, VariantsGet(blocks[call[t].block].variants,
                                call[t].key_string, seed))
    /\ UNCHANGED <<blocks, keysLock, ncalls, narcs>>

\* multipart.keys.read() (mod.rs 92): a reader enters when no writer holds the lock.
ReadLock(t) ==
    /\ UNCHANGED <<bakeVars, frameVars, compileVars, swapVars, storageVars>>
    /\ pc[t] = "read"
    /\ keysLock[call[t].block].writer = NoThread
    /\ keysLock' = [keysLock EXCEPT ![call[t].block].readers = @ \cup {t}]
    /\ pc' = [pc EXCEPT ![t] = "lookup"]
    /\ UNCHANGED <<blocks, call, mesh, ret, returned, ncalls, narcs>>

\* A read guard that outlives the lookup.
ReadGuardKept(lock, t) == lock

\* The read guard is a temporary of the if let (mod.rs 92-94): it is dropped
\* when the statement ends, on the return of a hit and at the end of a miss.
ReadGuardDropped(lock, t) == [lock EXCEPT !.readers = @ \ {t}]

\* get_full under the read lock (mod.rs 92-95): a hit returns the cached mesh
\* and the entry's index; a miss drops the read lock and goes on to generate.
Lookup(t) ==
    /\ UNCHANGED <<bakeVars, frameVars, compileVars, swapVars, storageVars>>
    /\ pc[t] = "lookup"
    /\ LET b == call[t].block
           keys == blocks[b].keys
           i == GetFull(keys, call[t].key_string)
       IN /\ keysLock' = [keysLock EXCEPT ![b] = ReadGuardDropped(@, t)]
          /\ IF HasKey(keys, call[t].key_string)
             THEN Return(t, [some |-> TRUE, mesh |-> keys[i + 1].value,
                             handle |-> HitHandle(keys, call[t].key_string)])
             ELSE /\ pc' = [pc EXCEPT ![t] = "generate"]
                  /\ UNCHANGED <<ret, returned, call, mesh>>
    /\ UNCHANGED <<blocks, ncalls, narcs>>

\* multipart.generate_mesh(..) with no lock held (mod.rs 97).
Generate(t) ==
    /\ UNCHANGED <<bakeVars, frameVars, compileVars, swapVars, storageVars>>
    /\ pc[t] = "generate"
    /\ mesh' = [mesh EXCEPT ![t] =
                    GenerateMesh(blocks[call[t].block].cases, call[t].key, narcs + 1)]
    /\ narcs' = narcs + 1
    /\ pc' = [pc EXCEPT ![t] = "write"]
    /\ UNCHANGED <<blocks, keysLock, call, ret, returned, ncalls>>

\* multipart.keys.write() (mod.rs 99): the writer enters when the lock is free.
WriteLock(t) ==
    /\ UNCHANGED <<bakeVars, frameVars, compileVars, swapVars, storageVars>>
    /\ pc[t] = "write"
    /\ keysLock[call[t].block] = FreeLock
    /\ keysLock' = [keysLock EXCEPT ![call[t].block].writer = t]
    /\ pc' = [pc EXCEPT ![t] = "insert"]
    /\ UNCHANGED <<blocks, call, mesh, ret, returned, ncalls, narcs>>

\* insert, the handle from the length, and the guard dropped (mod.rs 100-103).
Insert(t) ==
    /\ UNCHANGED <<bakeVars, frameVars, compileVars, swapVars, storageVars>>
    /\ pc[t] = "insert"
    /\ LET b == call[t].block
           keys == IndexMapInsert(blocks[b].keys, call[t].key_string, mesh[t])
       IN /\ blocks' = [blocks EXCEPT ![b].keys = keys]
          /\ keysLock' = [keysLock EXCEPT ![b].writer = NoThread]
          /\ Return(t, [some |-> TRUE, mesh |-> mesh[t],
                        handle |-> InsertHandle(keys, call[t].key_string)])
    /\ UNCHANGED <<ncalls, narcs>>


\* ------------------------------------------------------------------------
\* Chunk mesh baker: render/world/chunk.rs
\* ------------------------------------------------------------------------

\* Sections of the chunk in the exhaustive runs of the baker.
NumSections == 2

\* The chunk geometry of mc::chunk. The exhaustive runs take a chunk of
\* 2 x 2 columns and sections 2 high; the filled-section runs take the
\* program's 16 x 16 columns and sections 16 high.
SmallDim == [w |-> 2, sh |-> 2, ns |-> NumSections]
ProgramDim == [w |-> 16, sh |-> 16, ns |-> 2]

CHUNK_WIDTH == dim.w
CHUNK_SECTION_HEIGHT == dim.sh
CHUNK_AREA == CHUNK_WIDTH * CHUNK_WIDTH
CHUNK_HEIGHT == CHUNK_SECTION_HEIGHT * dim.ns
CHUNK_VOLUME == CHUNK_AREA * CHUNK_HEIGHT

\* ChunkBlockState and BlockstateKey
Air == [tag |-> "Air"]
State(key) == [tag |-> "State", key |-> key]
Key(b, a) == [block |-> b, augment |-> a]

Some(v) == [some |-> TRUE, v |-> v]

\* The six faces in the order bake emits them (chunk.rs 158-205, 212-219).
FaceOrder == <<"north", "east", "south", "west", "up", "down">>
Faces == {FaceOrder[i] : i \in 1..Len(FaceOrder)}

\* The vertices of one face of a mesh, in the mesh's order.
FaceVertices(name, f) == << <<name, f, 1>>, <<name, f, 2>> >>

\* A Cube with geometry for the faces in `defined`.
CubeModel(name, defined) ==
    [tag |-> "Cube",
     faces |-> [f \in Faces |-> IF f \in defined THEN Some(FaceVertices(name, f))
                                ELSE None]]

\* A Complex mesh: face groups, each with optional faces.
ComplexModel(name) ==
    [tag |-> "Complex",
     groups |-> << [f \in Faces |->
                      IF f \in {"north", "up"} THEN Some(FaceVertices(name \o "_a", f))
                      ELSE None],
                   [f \in Faces |->
                      IF f \in {"east", "up"} THEN Some(FaceVertices(name \o "_b", f))
                      ELSE None] >>]

\* ModelMesh: models[0] is the geometry and the flag that neighbours read.
StoneMesh == [models |-> << [shape |-> CubeModel("stone", Faces), flag |-> FALSE] >>]
GlassMesh ==
    [models |-> << [shape |-> CubeModel("glass", {"north", "west", "up", "down"}),
                    flag |-> TRUE] >>]
FenceMesh == [models |-> << [shape |-> ComplexModel("fence"), flag |-> FALSE] >>]

\* The block manager the baker reads: block 0 is a Variants block (stone,
\* glass), block 1 a Multipart block whose cache holds one mesh (fence).
BakeBlocks ==
    << [type |-> "Variants",
        variants |-> << [key |-> "", value |-> <<StoneMesh>>],
                        [key |-> "clear=true", value |-> <<GlassMesh, StoneMesh>>] >>],
       [type |-> "Multipart", cases |-> MultipartCases,
        keys |-> << [key |-> "", value |-> FenceMesh] >>] >>

StoneKey == Key(0, 0)
GlassKey == Key(0, 1)
FenceKey == Key(1, 0)
\* No block at this index of the block manager.
MissingBlockKey == Key(2, 0)
\* No entry at this index of the Multipart block's cache.
MissingVariantKey == Key(1, 1)

KeyInputsOfGrid == {StoneKey, GlassKey, FenceKey, MissingBlockKey, MissingVariantKey}

\* Block::get_model (mod.rs 45-57): the entry at index `key`; the expect of the
\* Multipart arm and the unwrap of the Variants arm panic when there is none.
GetModelPanics(block, key) ==
    IF block.type = "Multipart" THEN key >= Len(block.keys)
    ELSE key >= Len(block.variants) \/ block.variants[key + 1].value = <<>>

GetModel(block, key, seed) ==
    IF block.type = "Multipart" THEN block.keys[key + 1].value
    ELSE Candidate(block.variants[key + 1].value, seed)

\* get_block (chunk.rs 11-24): None for Air; for a state the unwrap of
\* get_index panics when the block manager has no block at key.block.
GetBlockPanics(state) ==
    /\ state.tag = "State"
    /\ \/ state.key.block >= Len(blocks)
       \/ GetModelPanics(blocks[state.key.block + 1], state.key.augment)

GetBlock(state) ==
    IF state.tag = "Air" THEN None
    ELSE Some(GetModel(blocks[state.key.block + 1], state.key.augment, 0))

\* state_provider.get_state(x, y, z) at absolute coordinates: a filled
\* section of this chunk, a placed block, or Air.
InFilled(x, y, z) ==
    /\ world.filled.some
    /\ x - chunkPos[1] * 16 \in 0..(CHUNK_WIDTH - 1)
    /\ z - chunkPos[2] * 16 \in 0..(CHUNK_WIDTH - 1)
    /\ y \in (world.filled.section * CHUNK_SECTION_HEIGHT)
              ..((world.filled.section + 1) * CHUNK_SECTION_HEIGHT - 1)

GetState(x, y, z) ==
    IF InFilled(x, y, z) THEN State(world.filled.key)
    ELSE IF \E p \in world.placed : p.at = <<x, y, z>>
         THEN State((CHOOSE p \in world.placed : p.at = <<x, y, z>>).key)
         ELSE Air

\* block_state.is_air() (chunk.rs 67)
IsAirNever(state) == FALSE

IsAir(state) == state.tag = "Air"

\* A filter call whose answer is not heeded.
FilterAcceptsAll(key) == TRUE

\* filter(state_key)
Filter(key) == key \notin rejects

\* mapper(v, x as f32, y as f32, z as f32, state_key): the most general mapper.
Mapper(v, x, y, z, key) == [v |-> v, x |-> x, y |-> y, z |-> z, key |-> key]

\* The neighbour cell each face is culled by (chunk.rs 86-156).
NeighbourSwapped(f, x, y, z) ==
    CASE f = "north" -> <<x, y, z + 1>>
      [] f = "south" -> <<x, y, z - 1>>
      [] f = "up"    -> <<x, y + 1, z>>
      [] f = "down"  -> <<x, y - 1, z>>
      [] f = "west"  -> <<x - 1, y, z>>
      [] f = "east"  -> <<x + 1, y, z>>

Neighbour(f, x, y, z) ==
    CASE f = "north" -> <<x, y, z - 1>>
      [] f = "south" -> <<x, y, z + 1>>
      [] f = "up"    -> <<x, y + 1, z>>
      [] f = "down"  -> <<x, y - 1, z>>
      [] f = "west"  -> <<x - 1, y, z>>
      [] f = "east"  -> <<x + 1, y, z>>

\* A neighbour read from a buffer of the chunk's own cells: air outside it.
NeighbourStateInChunk(f, ax, y, az) ==
    LET n == Neighbour(f, ax, y, az)
    IN IF /\ n[1] - chunkPos[1] * 16 \in 0..(CHUNK_WIDTH - 1)
          /\ n[3] - chunkPos[2] * 16 \in 0..(CHUNK_WIDTH - 1)
          /\ n[2] \in 0..(CHUNK_HEIGHT - 1)
       THEN GetState(n[1], n[2], n[3])
       ELSE Air

NeighbourState(f, ax, y, az) ==
    LET n == Neighbour(f, ax, y, az) IN GetState(n[1], n[2], n[3])

\* A culling test that takes a neighbour the filter rejects for absent.
RenderFaceUnlessRejected(f, ax, y, az) ==
    LET state == NeighbourState(f, ax, y, az)
        got == GetBlock(state)
    IN IF got.some /\ state.key \notin rejects THEN got.v.models[1].flag ELSE TRUE

\* render_north .. render_east (chunk.rs 86-156): the flag of the neighbour's
\* mesh, true when get_block gives None.
RenderFaceAlways(f, ax, y, az) == TRUE

RenderFaceAirCulls(f, ax, y, az) ==
    LET got == GetBlock(NeighbourState(f, ax, y, az))
    IN IF got.some THEN got.v.models[1].flag ELSE FALSE

RenderFace(f, ax, y, az) ==
    LET got == GetBlock(NeighbourState(f, ax, y, az))
    IN IF got.some THEN got.v.models[1].flag ELSE TRUE

\* vertices.extend(face.iter().map(|v| mapper(..))) for an optional face.
MapFace(face, x, y, z, key) ==
    IF face.some
    THEN [i \in 1..Len(face.v) |-> Mapper(face.v[i], x, y, z, key)]
    ELSE <<>>

RECURSIVE Concat(_)
Concat(seqs) == IF seqs = <<>> THEN <<>> ELSE Head(seqs) \o Concat(Tail(seqs))

\* The Cube arm (chunk.rs 85-206).
CubeOutput(model, x, y, z, ax, az, key) ==
    Concat([i \in 1..Len(FaceOrder) |->
              IF RenderFace(FaceOrder[i], ax, y, az)
              THEN MapFace(model.faces[FaceOrder[i]], x, y, z, key)
              ELSE <<>>])

\* A Complex arm that culls each face by its neighbour, as the Cube arm does.
ComplexOutputCulled(model, x, y, z, key) ==
    Concat([g \in 1..Len(model.groups) |->
              Concat([i \in 1..Len(FaceOrder) |->
                        IF RenderFace(FaceOrder[i], (chunkPos[1] * 16) + x, y,
                                      (chunkPos[2] * 16) + z)
                        THEN MapFace(model.groups[g][FaceOrder[i]], x, y, z, key)
                        ELSE <<>>])])

\* The Complex arm (chunk.rs 207-225): every face of every group.
ComplexOutput(model, x, y, z, key) ==
    Concat([g \in 1..Len(model.groups) |->
              Concat([i \in 1..Len(FaceOrder) |->
                        MapFace(model.groups[g][FaceOrder[i]], x, y, z, key)])])

\* One visit of the cell at block index i (chunk.rs 62-226): whether it
\* panics, and the vertices it appends.
LocalX(i) == i % CHUNK_WIDTH
LocalY(i) == i \div CHUNK_AREA
LocalZ(i) == (i % CHUNK_AREA) \div CHUNK_WIDTH

VisitCell(i) ==
    LET x == LocalX(i)
        y == LocalY(i)
        z == LocalZ(i)
        ax == (chunkPos[1] * 16) + x
        az == (chunkPos[2] * 16) + z
        state == GetState(ax, y, az)
    IN IF IsAir(state) THEN [panic |-> FALSE, out |-> <<>>]
       \* ChunkBlockState::Air => unreachable!() (chunk.rs 71-74)
       ELSE IF state.tag = "Air" THEN [panic |-> TRUE, out |-> <<>>]
       ELSE IF ~Filter(state.key) THEN [panic |-> FALSE, out |-> <<>>]
       ELSE IF GetBlockPanics(state) THEN [panic |-> TRUE, out |-> <<>>]
       ELSE LET model == GetBlock(state).v.models[1].shape
            IN IF model.tag = "Cube"
               THEN IF \E f \in Faces : GetBlockPanics(NeighbourState(f, ax, y, az))
                    THEN [panic |-> TRUE, out |-> <<>>]
                    ELSE [panic |-> FALSE,
                          out |-> CubeOutput(model, x, y, z, ax, az, state.key)]
               ELSE [panic |-> FALSE, out |-> ComplexOutput(model, x, y, z, state.key)]

\* The section-skip test at the head of the loop (chunk.rs 52-58).
AtSectionStart(i) ==
    LocalX(i) = 0 /\ LocalZ(i) = 0 /\ (LocalY(i) % CHUNK_SECTION_HEIGHT) = 0

SkipsSection(i) ==
    AtSectionStart(i) /\ sectionEmpty[LocalY(i) \div CHUNK_SECTION_HEIGHT]

SkipLengthLong == CHUNK_SECTION_HEIGHT * CHUNK_AREA + 1

\* A skip of one layer of the section.
SkipLengthLayer == CHUNK_AREA

SkipLength == CHUNK_SECTION_HEIGHT * CHUNK_AREA

\* One iteration of the loop of bake (chunk.rs 43-227), and the return.
LoopBody(st) ==
    IF st.block_index >= CHUNK_VOLUME
    THEN [st EXCEPT !.pc = "done"]
    ELSE IF SkipsSection(st.block_index)
    THEN [st EXCEPT !.block_index = st.block_index + SkipLength]
    ELSE LET cell == VisitCell(st.block_index)
         IN IF cell.panic
            THEN [block_index |-> st.block_index + 1, vertices |-> <<>>, pc |-> "panic"]
            ELSE [block_index |-> st.block_index + 1,
                  vertices |-> st.vertices \o cell.out, pc |-> st.pc]

\* n iterations of the loop, or as many as it runs before it ends.
RECURSIVE RunLoop(_, _)
RunLoop(st, n) ==
    IF n = 0 \/ st.pc # "loop" THEN st ELSE RunLoop(LoopBody(st), n - 1)

BakeRun(n) ==
    /\ bakePc = "loop"
    /\ LET st == RunLoop([block_index |-> block_index, vertices |-> vertices,
                          pc |-> bakePc], n)
       IN /\ block_index' = st.block_index
          /\ vertices' = st.vertices
          /\ bakePc' = st.pc
    /\ UNCHANGED <<dim, world, sectionEmpty, rejects, chunkPos>>
    /\ UNCHANGED <<resolverVars, frameVars, compileVars, swapVars, storageVars>>

\* One iteration of the loop of bake.
BakeStep == BakeRun(1)

\* The iterations of the loop over one row of the chunk.
BakeRow == BakeRun(CHUNK_WIDTH)

\* A chunk cell at local (x, y, z), in absolute coordinates.
Absolute(pos, x, y, z) == <<pos[1] * 16 + x, y, pos[2] * 16 + z>>

ChunkPosInputs == {<<0, 0>>, <<1, -1>>}

FilterInputs == {{}, {StoneKey}}

\* The worlds of the exhaustive runs: no block; one block in the chunk; one
\* block in the chunk and a second one beside it (inside or outside the
\* chunk) or at the same place of the next section.
BesideOrNextSection(d, c) ==
    {Neighbour(f, c[1], c[2], c[3]) : f \in Faces}
        \cup {<<c[1], (c[2] + d.sh) % (d.sh * d.ns), c[3]>>}

SparseWorlds(d, pos) ==
    LET cells == {Absolute(pos, x, y, z) : x \in 0..(d.w - 1), z \in 0..(d.w - 1),
                                           y \in 0..(d.sh * d.ns - 1)}
        one == {{[at |-> c, key |-> k]} : c \in cells, k \in KeyInputsOfGrid}
        two == UNION {{{[at |-> c, key |-> k], [at |-> c2, key |-> k2]} :
                         c2 \in BesideOrNextSection(d, c), k2 \in KeyInputsOfGrid} :
                      c \in cells, k \in KeyInputsOfGrid}
    IN {[placed |-> p, filled |-> None] : p \in {{}} \cup one \cup two}

\* The worlds with one whole section of the chunk filled with one block and
\* every other cell air.
FilledWorlds(d) ==
    {[placed |-> {}, filled |-> [some |-> TRUE, section |-> s, key |-> StoneKey]] :
        s \in 0..(d.ns - 1)}

BakeStart ==
    /\ blocks = BakeBlocks
    /\ sectionEmpty \in [0..(dim.ns - 1) -> BOOLEAN]
    /\ rejects \in FilterInputs
    /\ block_index = 0
    /\ vertices = <<>>
    /\ bakePc = "loop"

BakeIdle ==
    /\ dim = SmallDim
    /\ world = [placed |-> {}, filled |-> None]
    /\ sectionEmpty = [s \in 0..(SmallDim.ns - 1) |-> FALSE]
    /\ rejects = {}
    /\ chunkPos = <<0, 0>>
    /\ block_index = 0
    /\ vertices = <<>>
    /\ bakePc = "done"

\* ------------------------------------------------------------------------
\* Frame scheduler: render/graph.rs
\* ------------------------------------------------------------------------

\* Pipelines of one configuration.
MaxPipelines == 3
\* Frames rendered in one behaviour.
MaxFrames == 2

\* PipelineConfig: the pipelines a configuration is drawn from. Each is given
\* with the depth attachments it is tried with.
PipelinePool ==
    << [name |-> "terrain", geometry |-> "@geo_terrain",
        output |-> <<"@framebuffer_texture">>,
        bind_groups |-> << [slot |-> 0, def |-> [tag |-> "Resource", name |-> "@bg_ssbo_chunks"]] >>,
        push_constants |-> <<"@pc_section_position">>,
        depths |-> {None, Some("@texture_depth")}],
       [name |-> "entities", geometry |-> "@geo_entities",
        output |-> <<"@framebuffer_texture">>,
        bind_groups |-> << [slot |-> 0, def |-> [tag |-> "Entries", entries |-> <<"@sampler">>]],
                           [slot |-> 1, def |-> [tag |-> "Resource", name |-> "@bg_entity"]] >>,
        push_constants |-> <<"@pc_parts_per_entity">>,
        depths |-> {None, Some("@texture_depth")}],
       [name |-> "sky", geometry |-> "sky",
        output |-> <<"@framebuffer_texture">>,
        bind_groups |-> <<>>,
        push_constants |-> <<>>,
        depths |-> {None, Some("@texture_depth")}],
       [name |-> "shadow", geometry |-> "@geo_terrain",
        output |-> <<>>,
        bind_groups |-> << [slot |-> 0, def |-> [tag |-> "Resource", name |-> "@bg_ssbo_chunks"]] >>,
        push_constants |-> <<>>,
        depths |-> {Some("shadow_map"), Some("nowhere")}],
       [name |-> "overlay", geometry |-> "@geo_entities",
        output |-> <<"@framebuffer_texture">>,
        bind_groups |-> << [slot |-> 0, def |-> [tag |-> "Resource", name |-> "@bg_entity"]] >>,
        push_constants |-> <<"@pc_mat4_model">>,
        depths |-> {None, Some("@texture_depth")}] >>

PipelineOf(template, depth) ==
    [name |-> template.name, geometry |-> template.geometry, output |-> template.output,
     bind_groups |-> template.bind_groups, push_constants |-> template.push_constants,
     depth |-> depth, clear |-> template.name = "terrain"]

\* config.pipelines.pipelines: an ordered map, so the names are distinct.
RECURSIVE ConfigsOfLength(_)
ConfigsOfLength(n) ==
    IF n = 0 THEN {<<>>}
    ELSE {Append(c, PipelineOf(PipelinePool[i], d)) :
            c \in ConfigsOfLength(n - 1),
            i \in 1..Len(PipelinePool),
            d \in UNION {PipelinePool[j].depths : j \in 1..Len(PipelinePool)}}

DistinctNames(c) == \A i \in 1..Len(c) : \A j \in 1..Len(c) : c[i].name = c[j].name => i = j

DepthAllowed(c) ==
    \A i \in 1..Len(c) :
        \E j \in 1..Len(PipelinePool) :
            PipelinePool[j].name = c[i].name /\ c[i].depth \in PipelinePool[j].depths

ConfigInputs ==
    UNION {{c \in ConfigsOfLength(n) : DistinctNames(c) /\ DepthAllowed(c)} :
              n \in 0..MaxPipelines}

\* Scene: the loaded sections (whether each passes the frustum test and has a
\* Solid layer) and the number of entity instance batches.
SceneInputs ==
    { [sections |-> <<>>, entities |-> 0],
      [sections |-> << [visible |-> TRUE, solid |-> TRUE],
                       [visible |-> FALSE, solid |-> TRUE],
                       [visible |-> TRUE, solid |-> FALSE] >>,
       entities |-> 2] }

ProviderInputs == {{}, {"sky"}}

\* The resources of the graph (graph.rs 418-437): the caller's and the two
\* the compiler adds.
GraphResources ==
    [id \in {"shadow_map", "@texture_block_atlas", "@sampler"} |->
        IF id = "@sampler" THEN "Sampler" ELSE "Texture2D"]

\* The bind groups of a BoundPipeline (graph.rs 184-213).
WmBindGroups(pipeline_config) ==
    [i \in 1..Len(pipeline_config.bind_groups) |->
        LET bg == pipeline_config.bind_groups[i]
        IN IF bg.def.tag = "Entries"
           THEN [slot |-> bg.slot, tag |-> "Custom", entries |-> bg.def.entries]
           ELSE [slot |-> bg.slot, tag |-> "Resource", name |-> bg.def.name]]

\* create_pipelines (graph.rs 142-367): the map is cleared, then one
\* BoundPipeline is inserted per pipeline of the configuration, in its order.
RECURSIVE InsertPipelinesReversed(_, _)
InsertPipelinesReversed(pipelines, config) ==
    IF config = <<>> THEN pipelines
    ELSE InsertPipelinesReversed(
            <<[name |-> Head(config).name, bind_groups |-> WmBindGroups(Head(config)),
               config |-> Head(config)]>> \o pipelines,
            Tail(config))

\* A compiler whose BoundPipelines all store the entry compiled last.
RECURSIVE InsertPipelinesLastConfig(_, _)
InsertPipelinesLastConfig(pipelines, config) ==
    IF config = <<>> THEN pipelines
    ELSE InsertPipelinesLastConfig(
            Append(pipelines,
                   [name |-> Head(config).name, bind_groups |-> WmBindGroups(Head(config)),
                    config |-> config[Len(config)]]),
            Tail(config))

RECURSIVE InsertPipelines(_, _)
InsertPipelines(pipelines, config) ==
    IF config = <<>> THEN pipelines
    ELSE InsertPipelines(
            Append(pipelines,
                   [name |-> Head(config).name, bind_groups |-> WmBindGroups(Head(config)),
                    config |-> Head(config)]),
            Tail(config))

CreatePipelines(config) == InsertPipelines(<<>>, config)

\* RenderGraph::new (graph.rs 370-442)
RenderGraphNew(config) ==
    [config |-> config, pipelines |-> CreatePipelines(config), resources |-> GraphResources]

\* self.config.pipelines.pipelines.get(pipeline_name).unwrap() (graph.rs 459)
ConfigOf(name) ==
    graph.config[CHOOSE i \in 1..Len(graph.config) : graph.config[i].name = name]

\* The color attachments (graph.rs 465-490): an output other than the
\* framebuffer is unimplemented.
ColorPanics(pipeline_config) ==
    \E i \in 1..Len(pipeline_config.output) :
        pipeline_config.output[i] # "@framebuffer_texture"

\* The depth view (graph.rs 495-514).
DepthPanics(pipeline_config) ==
    /\ pipeline_config.depth.some
    /\ pipeline_config.depth.v # "@texture_depth"
    /\ \/ pipeline_config.depth.v \notin DOMAIN graph.resources
       \/ graph.resources[pipeline_config.depth.v] # "Texture2D"

\* let mut should_clear_depth = true (graph.rs 456)
FrameStartFlagKept == should_clear_depth

FrameStartFlag == TRUE

\* The depth load op (graph.rs 519-523).
DepthLoadOp(will_clear_depth) == IF will_clear_depth THEN "clear" ELSE "load"

\* set_push_constants (graph.rs 647-666): a name the pass does not supply is
\* unimplemented.
PushConstantsPanic(pipeline_config, supplied) ==
    \E i \in 1..Len(pipeline_config.push_constants) :
        pipeline_config.push_constants[i] \notin supplied

BindGroupsPanic(bound_pipeline, name) ==
    \E i \in 1..Len(bound_pipeline.bind_groups) :
        /\ bound_pipeline.bind_groups[i].tag = "Resource"
        /\ bound_pipeline.bind_groups[i].name # name

\* A terrain pass without the frustum test.
DrawnSectionsUnculled ==
    {i \in 1..Len(scene.sections) : scene.sections[i].solid}

\* The sections the terrain pass draws (graph.rs 560-589): those that pass
\* the frustum test and have a Solid layer.
DrawnSections ==
    {i \in 1..Len(scene.sections) :
        scene.sections[i].visible /\ scene.sections[i].solid}

RECURSIVE DrawsOf(_, _, _)
DrawsOf(name, kind, targets) ==
    IF targets = {} THEN <<>>
    ELSE LET i == CHOOSE j \in targets : \A k \in targets : j <= k
         IN <<[pass |-> name, kind |-> kind, target |-> i]>>
            \o DrawsOf(name, kind, targets \ {i})

\* None => unimplemented!("Unknown geometry {}", ..) (graph.rs 637)
UnknownGeometrySkipped == [panic |-> FALSE, draws |-> <<>>]

UnknownGeometry == [panic |-> TRUE, draws |-> <<>>]

\* An entity pass that walks the live map instead of its clone.
EntityBatchesLive == scene.entities

\* for (_, entity_instances) in &instances (graph.rs 596): the batches the
\* entity pass walks are those of the clone.
EntityBatches == instances

\* The body of a pass (graph.rs 531-642).
PassBody(bound_pipeline, pipeline_config) ==
    CASE pipeline_config.geometry = "@geo_terrain" ->
            IF \/ BindGroupsPanic(bound_pipeline, "@bg_ssbo_chunks")
               \/ /\ DrawnSections # {}
                  /\ PushConstantsPanic(pipeline_config, {"@pc_section_position"})
            THEN [panic |-> TRUE, draws |-> <<>>]
            ELSE [panic |-> FALSE,
                  draws |-> DrawsOf(bound_pipeline.name, "section", DrawnSections)]
      [] pipeline_config.geometry = "@geo_entities" ->
            IF /\ EntityBatches > 0
               /\ \/ BindGroupsPanic(bound_pipeline, "@bg_entity")
                  \/ PushConstantsPanic(pipeline_config, {"@pc_parts_per_entity"})
            THEN [panic |-> TRUE, draws |-> <<>>]
            ELSE [panic |-> FALSE,
                  draws |-> DrawsOf(bound_pipeline.name, "entity", 1..EntityBatches)]
      [] OTHER ->
            IF pipeline_config.geometry \notin providers
            THEN UnknownGeometry
            ELSE [panic |-> FALSE,
                  draws |-> <<[pass |-> bound_pipeline.name, kind |-> "provider",
                               target |-> pipeline_config.geometry]>>]

\* The render thread, as a holder of locks.
RenderThread == NumThreads + 1

\* A lock that lets every caller in.
CanLockAlways(lock, mode) == mode \in {"read", "write"}

\* parking_lot::RwLock: read() enters when there is no writer, write() when
\* there is no holder at all.
CanLock(lock, mode) ==
    IF mode = "read" THEN lock.writer = NoThread ELSE lock = FreeLock

Locked(lock, t, mode) ==
    IF mode = "read" THEN [lock EXCEPT !.readers = @ \cup {t}]
    ELSE [lock EXCEPT !.writer = t]

Unlocked(lock, t) ==
    [readers |-> lock.readers \ {t},
     writer |-> IF lock.writer = t THEN NoThread ELSE lock.writer]

\* let sections = scene.section_storage.write() (graph.rs 558)
TerrainLockMode == "write"

\* A guard on the entity instances that lives as long as the clone.
CloneGuardKept(t) == t

\* { scene.entity_instances.lock().clone() } (graph.rs 594): the guard is a
\* temporary of the block and is dropped where the block ends, so the mutex
\* is free again when `instances` is bound.
CloneGuardDropped(t) == NoThread

StorageIdle ==
    /\ section_storage = FreeLock
    /\ storagePc = [t \in Threads |-> "out"]
    /\ entity_instances = NoThread
    /\ instances = 0

FrameIdle ==
    /\ graph = RenderGraphNew(<<>>)
    /\ scene = [sections |-> <<>>, entities |-> 0]
    /\ providers = {}
    /\ framePc = "idle"
    /\ pidx = 1
    /\ should_clear_depth = TRUE
    /\ passes = <<>>
    /\ draws = <<>>
    /\ nframes = 0

FrameInit ==
    /\ graph \in {RenderGraphNew(c) : c \in ConfigInputs}
    /\ scene \in SceneInputs
    /\ providers = {}
    /\ framePc = "idle"
    /\ pidx = 1
    /\ should_clear_depth = TRUE
    /\ passes = <<>>
    /\ draws = <<>>
    /\ nframes = 0

\* RenderGraph::render is entered with the geometry map of this call
\* (graph.rs 444-456).
StartFrame ==
    /\ framePc = "idle"
    /\ nframes < MaxFrames
    /\ nframes' = nframes + 1
    /\ providers' \in ProviderInputs
    /\ should_clear_depth' = FrameStartFlag
    /\ passes' = <<>>
    /\ draws' = <<>>
    /\ pidx' = 1
    /\ framePc' = IF Len(graph.pipelines) = 0 THEN "idle" ELSE "begin"
    /\ UNCHANGED <<graph, scene>>
    /\ UNCHANGED <<resolverVars, bakeVars, compileVars, swapVars, storageVars>>

\* encoder.begin_render_pass for the pipeline at pidx (graph.rs 458-529).
BeginPass ==
    /\ framePc = "begin"
    /\ LET bound_pipeline == graph.pipelines[pidx]
           pipeline_config == ConfigOf(bound_pipeline.name)
       IN IF ColorPanics(pipeline_config)
          THEN /\ framePc' = "panic"
               /\ UNCHANGED <<should_clear_depth, passes>>
          ELSE /\ should_clear_depth' =
                     IF pipeline_config.depth.some THEN FALSE ELSE should_clear_depth
               /\ IF DepthPanics(pipeline_config)
                  THEN framePc' = "panic" /\ UNCHANGED passes
                  ELSE /\ framePc' = "draw"
                       /\ passes' = Append(passes,
                             [name |-> bound_pipeline.name,
                              depth |-> IF pipeline_config.depth.some
                                        THEN DepthLoadOp(should_clear_depth)
                                        ELSE "none"])
    /\ UNCHANGED <<graph, scene, providers, pidx, draws, nframes>>
    /\ UNCHANGED <<resolverVars, bakeVars, compileVars, swapVars, storageVars>>

\* The end of the loop body: the pass is dropped and the loop goes on to the
\* next pipeline, or the panic leaves render (graph.rs 643).
EndPass(body) ==
    IF body.panic
    THEN framePc' = "panic" /\ UNCHANGED <<pidx, draws>>
    ELSE /\ draws' = draws \o body.draws
         /\ pidx' = pidx + 1
         /\ framePc' = IF pidx = Len(graph.pipelines) THEN "idle" ELSE "begin"

\* The geometry of the pass (graph.rs 531-642). A terrain pass whose bind
\* groups are set goes on to lock the section storage (graph.rs 558) and
\* draws in DrawSections; an entity pass locks the entity instances, clones
\* them (graph.rs 594) and draws in DrawEntities; every other pass is drawn
\* here.
DrawPass ==
    /\ framePc = "draw"
    /\ LET bound_pipeline == graph.pipelines[pidx]
           pipeline_config == ConfigOf(bound_pipeline.name)
       IN CASE /\ pipeline_config.geometry = "@geo_terrain"
               /\ ~BindGroupsPanic(bound_pipeline, "@bg_ssbo_chunks") ->
                  /\ CanLock(section_storage, TerrainLockMode)
                  /\ section_storage' = Locked(section_storage, RenderThread, TerrainLockMode)
                  /\ framePc' = "sections"
                  /\ UNCHANGED <<pidx, draws, entity_instances, instances>>
            [] pipeline_config.geometry = "@geo_entities" ->
                  /\ entity_instances = NoThread
                  /\ instances' = scene.entities
                  /\ entity_instances' = CloneGuardDropped(RenderThread)
                  /\ framePc' = "entities"
                  /\ UNCHANGED <<pidx, draws, section_storage>>
            [] OTHER ->
                  /\ EndPass(PassBody(bound_pipeline, pipeline_config))
                  /\ UNCHANGED <<section_storage, entity_instances, instances>>
    /\ UNCHANGED <<graph, scene, providers, should_clear_depth, passes, nframes>>
    /\ UNCHANGED storagePc
    /\ UNCHANGED <<resolverVars, bakeVars, compileVars, swapVars>>

\* The loop over the sections under the lock, and the guard dropped at the
\* end of the terrain arm or by the panic (graph.rs 558-590).
DrawSections ==
    /\ framePc = "sections"
    /\ LET bound_pipeline == graph.pipelines[pidx]
       IN EndPass(PassBody(bound_pipeline, ConfigOf(bound_pipeline.name)))
    /\ section_storage' = Unlocked(section_storage, RenderThread)
    /\ UNCHANGED <<graph, scene, providers, should_clear_depth, passes, nframes>>
    /\ UNCHANGED <<storagePc, entity_instances, instances>>
    /\ UNCHANGED <<resolverVars, bakeVars, compileVars, swapVars>>

\* The loop over the batches of the clone (graph.rs 596-634); what the render
\* thread still holds of the entity instances goes when the arm ends.
DrawEntities ==
    /\ framePc = "entities"
    /\ LET bound_pipeline == graph.pipelines[pidx]
       IN EndPass(PassBody(bound_pipeline, ConfigOf(bound_pipeline.name)))
    /\ entity_instances' =
          IF entity_instances = RenderThread THEN NoThread ELSE entity_instances
    /\ UNCHANGED <<graph, scene, providers, should_clear_depth, passes, nframes>>
    /\ UNCHANGED <<section_storage, storagePc, instances>>
    /\ UNCHANGED <<resolverVars, bakeVars, compileVars, swapVars>>

\* Another thread takes the section storage: a reader, or a baking thread
\* that replaces the geometry of a section.
SectionsLock(t, mode) ==
    /\ storagePc[t] = "out"
    /\ CanLock(section_storage, mode)
    /\ section_storage' = Locked(section_storage, t, mode)
    /\ storagePc' = [storagePc EXCEPT ![t] = IF mode = "read" THEN "reading" ELSE "writing"]
    /\ UNCHANGED <<entity_instances, instances>>
    /\ UNCHANGED <<resolverVars, bakeVars, frameVars, compileVars, swapVars>>

SectionsRead(t) == SectionsLock(t, "read")

SectionsWrite(t) == SectionsLock(t, "write")

SectionsUnlock(t) ==
    /\ storagePc[t] # "out"
    /\ section_storage' = Unlocked(section_storage, t)
    /\ storagePc' = [storagePc EXCEPT ![t] = "out"]
    /\ UNCHANGED <<entity_instances, instances>>
    /\ UNCHANGED <<resolverVars, bakeVars, frameVars, compileVars, swapVars>>

\* The section lists a baking thread leaves in the storage: nothing loaded,
\* the sections of the scene, a section removed, a section's layers replaced.
SectionInputs ==
    {s.sections : s \in SceneInputs}
        \cup {<< [visible |-> TRUE, solid |-> TRUE],
                 [visible |-> FALSE, solid |-> TRUE] >>,
               << [visible |-> TRUE, solid |-> TRUE],
                 [visible |-> FALSE, solid |-> TRUE],
                 [visible |-> TRUE, solid |-> TRUE] >>}

\* A baking thread that holds the write guard inserts, removes or replaces
\* sections.
SectionsUpdate(t) ==
    /\ storagePc[t] = "writing"
    /\ \E s \in SectionInputs \ {scene.sections} :
          scene' = [scene EXCEPT !.sections = s]
    /\ UNCHANGED <<graph, providers, framePc, pidx, should_clear_depth, passes,
                   draws, nframes>>
    /\ UNCHANGED <<resolverVars, bakeVars, compileVars, swapVars, storageVars>>

\* The batch counts another thread leaves in the entity instances.
BatchInputs == {s.entities : s \in SceneInputs} \cup {1}

\* Another thread takes the mutex of the entity instances ...
EntitiesLock(t) ==
    /\ entity_instances = NoThread
    /\ entity_instances' = t
    /\ UNCHANGED <<section_storage, storagePc, instances>>
    /\ UNCHANGED <<resolverVars, bakeVars, frameVars, compileVars, swapVars>>

\* ... adds or removes batches of instances under it ...
EntitiesUpdate(t) ==
    /\ entity_instances = t
    /\ \E n \in BatchInputs \ {scene.entities} :
          scene' = [scene EXCEPT !.entities = n]
    /\ UNCHANGED <<graph, providers, framePc, pidx, should_clear_depth, passes,
                   draws, nframes>>
    /\ UNCHANGED <<resolverVars, bakeVars, compileVars, swapVars, storageVars>>

\* ... and drops its guard.
EntitiesUnlock(t) ==
    /\ entity_instances = t
    /\ entity_instances' = NoThread
    /\ UNCHANGED <<section_storage, storagePc, instances>>
    /\ UNCHANGED <<resolverVars, bakeVars, frameVars, compileVars, swapVars>>

\* ------------------------------------------------------------------------
\* Render graph compiler: render/graph.rs
\* ------------------------------------------------------------------------

\* Calls of RenderGraph::new in one behaviour.
MaxCompiles == 2

\* HashMap::extend / insert: the entries of m2 replace those of m.
Extend(m, m2) ==
    [k \in DOMAIN m \cup DOMAIN m2 |-> IF k \in DOMAIN m2 THEN m2[k] ELSE m[k]]

\* The resources the compiler adds itself (graph.rs 428-437).
ReservedResources ==
    [id \in {"@texture_block_atlas", "@sampler"} |->
        IF id = "@sampler" THEN "Sampler" ELSE "Texture2D"]

\* A compiler that goes on without the block atlas.
BlockAtlasOptional(atlases) == FALSE

\* atlases.get(BLOCK_ATLAS).unwrap() (graph.rs 426)
BlockAtlasPanics(atlases) == "block" \notin atlases

\* The resource loop of RenderGraph::new (graph.rs 377-416): a declared
\* Texture2d is read from the resource provider and put into the map; every
\* other declared resource is passed over.
LoadResourcesLenient(config, resources, fs) ==
    LET loaded == {i \in 1..Len(config.resources) :
                      config.resources[i].type = "Texture2d"
                         /\ config.resources[i].src \in fs}
    IN [panic |-> FALSE,
        resources |-> Extend(resources,
              [id \in {config.resources[i].id : i \in loaded} |-> "Texture2D"])]

LoadResources(config, resources, fs) ==
    LET textures == {i \in 1..Len(config.resources) :
                        config.resources[i].type = "Texture2d"}
    IN IF \E i \in textures : config.resources[i].src \notin fs
       THEN [panic |-> TRUE]
       ELSE [panic |-> FALSE,
             resources |-> Extend(resources,
                  [id \in {config.resources[i].id : i \in textures} |-> "Texture2D"])]

\* self.resources.get(resource_id).unwrap() (graph.rs 153, 189) and the
\* todo!() of get_bind_group_entries (graph.rs 110).
InlineEntryOmitted(resources, id) == FALSE

InlineEntryPanics(resources, id) ==
    id \notin DOMAIN resources \/ resources[id] = "BufferArray"

\* A named bind group (graph.rs 167-179).
NamedBindGroupPanics(name, custom_bind_groups) ==
    /\ name \notin {"@bg_ssbo_chunks", "@bg_entity"}
    /\ ~custom_bind_groups.some \/ name \notin custom_bind_groups.v

\* A resolution that asks the caller's map before the built-in names.
NamedBindGroupLayoutCustomFirst(name, custom_bind_groups) ==
    IF custom_bind_groups.some /\ name \in custom_bind_groups.v
    THEN [from |-> "custom", key |-> name]
    ELSE IF name = "@bg_ssbo_chunks" THEN [from |-> "wm", key |-> "ssbo"]
    ELSE IF name = "@bg_entity" THEN [from |-> "wm", key |-> "entity"]
    ELSE [from |-> "panic", key |-> name]

\* match (&resource[..], &custom_bind_groups) (graph.rs 167-179): the arms
\* are tried in order, the two built-in names first, then the caller's map.
NamedBindGroupLayout(name, custom_bind_groups) ==
    IF name = "@bg_ssbo_chunks" THEN [from |-> "wm", key |-> "ssbo"]
    ELSE IF name = "@bg_entity" THEN [from |-> "wm", key |-> "entity"]
    ELSE IF custom_bind_groups.some /\ name \in custom_bind_groups.v
    THEN [from |-> "custom", key |-> name]
    ELSE [from |-> "panic", key |-> name]

\* bind_group_layouts of one pipeline (graph.rs 147-182): per bind group, in
\* the order of the configuration, where its layout comes from.
BindGroupLayouts(pipeline_config, custom_bind_groups) ==
    [i \in 1..Len(pipeline_config.bind_groups) |->
        LET def == pipeline_config.bind_groups[i].def
        IN IF def.tag = "Entries" THEN [from |-> "entries", key |-> ""]
           ELSE NamedBindGroupLayout(def.name, custom_bind_groups)]

BindGroupDefPanics(resources, def, custom_bind_groups) ==
    IF def.tag = "Entries"
    THEN \E i \in 1..Len(def.entries) : InlineEntryPanics(resources, def.entries[i])
    ELSE NamedBindGroupPanics(def.name, custom_bind_groups)

\* The push constant names create_pipelines knows (graph.rs 221-243).
PushConstantNames ==
    {"@pc_mat4_model", "@pc_section_position", "@pc_total_sections",
     "@pc_parts_per_entity", "@pc_electrum_color"}

\* WgslShader::init(..).unwrap() (graph.rs 255-262)
ShaderPath(pipeline_name) == "wgpu_mc:shaders/" \o pipeline_name \o ".wgsl"

\* The geometry kinds with a built-in vertex layout (graph.rs 265-272).
BuiltinGeometry ==
    {"@geo_terrain", "@geo_entities", "@geo_quad", "@geo_sun_moon",
     "@geo_sky_scatter", "@geo_sky_stars", "@geo_sky_fog"}

GeometryPanics(geometry, custom_geometry) ==
    /\ geometry \notin BuiltinGeometry
    /\ ~custom_geometry.some \/ geometry \notin custom_geometry.v

\* The blend presets (graph.rs 329-348), looked at once per output target.
BlendNames ==
    {"alpha_blending", "premultiplied_alpha_blending", "replace",
     "color_add_alpha_blending"}

BlendPanics(pipeline_config) ==
    pipeline_config.output # <<>> /\ pipeline_config.blending \notin BlendNames

\* The body of the loop of create_pipelines panics for this pipeline
\* (graph.rs 146-358).
PipelinePanics(resources, pipeline_config, in, fs) ==
    \/ \E i \in 1..Len(pipeline_config.bind_groups) :
          BindGroupDefPanics(resources, pipeline_config.bind_groups[i].def,
                             in.custom_bind_groups)
    \/ \E i \in 1..Len(pipeline_config.push_constants) :
          pipeline_config.push_constants[i] \notin PushConstantNames
    \/ ShaderPath(pipeline_config.name) \notin fs
    \/ GeometryPanics(pipeline_config.geometry, in.custom_geometry)
    \/ BlendPanics(pipeline_config)

\* RenderGraph::new (graph.rs 370-442) on arguments `in` with the resource
\* provider holding the paths fs: a panic, or the graph.
NewGraph(in, fs) ==
    LET loaded == LoadResources(in.config, in.resources, fs)
    IN IF loaded.panic \/ BlockAtlasPanics(in.atlases) THEN [panic |-> TRUE]
       ELSE LET resources == Extend(loaded.resources, ReservedResources)
            IN IF \E i \in 1..Len(in.config.pipelines) :
                      PipelinePanics(resources, in.config.pipelines[i], in, fs)
               THEN [panic |-> TRUE]
               ELSE [panic |-> FALSE,
                     graph |-> [config |-> in.config.pipelines,
                                pipelines |-> CreatePipelines(in.config.pipelines),
                                resources |-> resources],
                     layouts |-> [i \in 1..Len(in.config.pipelines) |->
                                    BindGroupLayouts(in.config.pipelines[i],
                                                     in.custom_bind_groups)]]

\* The pipelines configurations are compiled from.
CompilePool ==
    << [name |-> "terrain", geometry |-> "@geo_terrain",
        output |-> <<"@framebuffer_texture">>, blending |-> "replace",
        bind_groups |-> << [slot |-> 0, def |-> [tag |-> "Resource", name |-> "@bg_ssbo_chunks"]] >>,
        push_constants |-> <<"@pc_section_position">>, depth |-> Some("@texture_depth")],
       [name |-> "quad", geometry |-> "@geo_quad",
        output |-> <<"@framebuffer_texture">>, blending |-> "alpha_blending",
        bind_groups |-> << [slot |-> 0, def |-> [tag |-> "Entries",
                               entries |-> <<"@texture_block_atlas", "@sampler">>]] >>,
        push_constants |-> <<>>, depth |-> None],
       [name |-> "lit", geometry |-> "@geo_entities",
        output |-> <<"@framebuffer_texture">>, blending |-> "replace",
        bind_groups |-> << [slot |-> 0, def |-> [tag |-> "Entries",
                               entries |-> <<"@sampler", "lightmap">>]],
                           [slot |-> 1, def |-> [tag |-> "Resource", name |-> "@bg_entity"]] >>,
        push_constants |-> <<"@pc_parts_per_entity">>, depth |-> Some("@texture_depth")],
       [name |-> "shadow", geometry |-> "@geo_terrain",
        output |-> <<>>, blending |-> "none",
        bind_groups |-> << [slot |-> 0, def |-> [tag |-> "Entries",
                               entries |-> <<"shadow_map", "lights">>]] >>,
        push_constants |-> <<>>, depth |-> Some("shadow_map")],
       [name |-> "sky", geometry |-> "sky",
        output |-> <<"@framebuffer_texture">>, blending |-> "color_add_alpha_blending",
        bind_groups |-> << [slot |-> 0, def |-> [tag |-> "Resource", name |-> "sky_uniforms"]] >>,
        push_constants |-> <<"@pc_mat4_model">>, depth |-> None],
       [name |-> "glow", geometry |-> "@geo_quad",
        output |-> <<"@framebuffer_texture">>, blending |-> "screen",
        bind_groups |-> <<>>,
        push_constants |-> <<"@pc_glow">>, depth |-> None] >>

\* The pipeline lists of up to two pipelines with distinct names.
CompileConfigs ==
    {<<>>} \cup {<<CompilePool[i]>> : i \in 1..Len(CompilePool)}
        \cup {<<CompilePool[ij[1]], CompilePool[ij[2]]>> :
                 ij \in {p \in (1..Len(CompilePool)) \X (1..Len(CompilePool)) :
                            p[1] # p[2]}}

\* config.resources.resources: what the configuration declares.
DeclaredInputs ==
    { <<>>,
      << [id |-> "lightmap", type |-> "Texture2d", src |-> "lightmap.png"],
         [id |-> "gamma", type |-> "Float", src |-> ""] >> }

\* The resources the caller hands to RenderGraph::new.
EmptyMap == [id \in {} |-> "Texture2D"]

CallerResourceInputs ==
    { EmptyMap,
      [id \in {"shadow_map", "lights"} |->
          IF id = "lights" THEN "Buffer" ELSE "Texture2D"],
      [id \in {"shadow_map", "lights"} |->
          IF id = "lights" THEN "BufferArray" ELSE "Texture2D"] }

CompileInputs ==
    [config : [pipelines : CompileConfigs, resources : DeclaredInputs],
     resources : CallerResourceInputs,
     custom_bind_groups : {None, Some({"sky_uniforms"}),
                           Some({"sky_uniforms", "@bg_entity"})},
     custom_geometry : {None, Some({"sky"})},
     atlases : {{"block"}, {}}]

\* What the resource provider holds: the shaders all the time, the texture
\* at times.
ShaderFiles == {ShaderPath(CompilePool[i].name) : i \in 1..Len(CompilePool)}

FileInputs == {ShaderFiles, ShaderFiles \cup {"lightmap.png"}}

CompileIdle ==
    /\ compileIn = [config |-> [pipelines |-> <<>>, resources |-> <<>>],
                    resources |-> EmptyMap,
                    custom_bind_groups |-> None, custom_geometry |-> None,
                    atlases |-> {"block"}]
    /\ files = ShaderFiles
    /\ compiled = <<>>

CompileInit ==
    /\ compileIn \in CompileInputs
    /\ files \in FileInputs
    /\ compiled = <<>>

\* One call of RenderGraph::new with the arguments compileIn.
Compile ==
    /\ Len(compiled) < MaxCompiles
    /\ compiled' = Append(compiled, NewGraph(compileIn, files))
    /\ UNCHANGED <<compileIn, files>>
    /\ UNCHANGED <<resolverVars, bakeVars, frameVars, swapVars, storageVars>>

\* The resource provider gains or loses a file between two compilations.
ChangeFiles ==
    /\ Len(compiled) < MaxCompiles
    /\ files' \in FileInputs \ {files}
    /\ UNCHANGED <<compileIn, compiled>>
    /\ UNCHANGED <<resolverVars, bakeVars, frameVars, swapVars, storageVars>>

\* ------------------------------------------------------------------------
\* Rebuild of the compiled pipelines: lib.rs
\* ------------------------------------------------------------------------

\* Calls of build_pipelines in one behaviour.
MaxBuilds == 2

\* The shader maps the pipelines are built from: the names of the shaders.
ShaderInputs == {{"terrain"}, {"terrain", "sky"}, {"sky", "entity"}}

\* RenderPipelineManager::init(device, shaders, resource_provider), returned
\* by value (lib.rs 126-130, 145-149): the manager of build number n with one
\* pipeline per shader.
ManagerInit(n, shaders) == [build |-> n, shaders |-> shaders, pipelines |-> shaders]

\* What the ArcSwap points to while init runs: build_pipelines does not touch
\* it before the store (lib.rs 145-151).
PublishedCleared(old, shaders) == [old EXCEPT !.shaders = shaders, !.pipelines = {}]

PublishedDuringInit(old, shaders) == old

SwapIdle ==
    /\ wmPipelines = ManagerInit(0, {"terrain"})
    /\ buildPc = "idle"
    /\ newPipelines = None
    /\ observed = [t \in Threads |-> None]
    /\ nbuilds = 0

\* WmRenderer::new (lib.rs 121-142)
SwapInit ==
    /\ wmPipelines \in {ManagerInit(0, shaders) : shaders \in ShaderInputs}
    /\ buildPc = "idle"
    /\ newPipelines = None
    /\ observed = [t \in Threads |-> None]
    /\ nbuilds = 0

\* build_pipelines up to the return of init (lib.rs 144-149).
BuildInit ==
    /\ buildPc = "idle"
    /\ nbuilds < MaxBuilds
    /\ \E shaders \in ShaderInputs :
          /\ newPipelines' = Some(ManagerInit(nbuilds + 1, shaders))
          /\ wmPipelines' = PublishedDuringInit(wmPipelines, shaders)
    /\ nbuilds' = nbuilds + 1
    /\ buildPc' = "store"
    /\ UNCHANGED observed
    /\ UNCHANGED <<resolverVars, bakeVars, frameVars, compileVars, storageVars>>

\* self.pipelines.store(Arc::new(pipelines)) (lib.rs 151)
BuildStore ==
    /\ buildPc = "store"
    /\ wmPipelines' = newPipelines.v
    /\ newPipelines' = None
    /\ buildPc' = "idle"
    /\ UNCHANGED <<observed, nbuilds>>
    /\ UNCHANGED <<resolverVars, bakeVars, frameVars, compileVars, storageVars>>

\* A render thread loads the ArcSwap: no lock, whatever the builder does.
LoadPipelines(t) ==
    /\ observed' = [observed EXCEPT ![t] =
                        [some |-> TRUE, v |-> wmPipelines,
                         rebuilding |-> buildPc = "store"]]
    /\ UNCHANGED <<wmPipelines, buildPc, newPipelines, nbuilds>>
    /\ UNCHANGED <<resolverVars, bakeVars, frameVars, compileVars, storageVars>>

\* ------------------------------------------------------------------------
\* Specifications
\* ------------------------------------------------------------------------

vars == <<resolverVars, bakeVars, frameVars, compileVars, swapVars, storageVars>>

ResolverStep(t) ==
    \/ VariantsLookup(t)
    \/ ReadLock(t)
    \/ Lookup(t)
    \/ Generate(t)
    \/ WriteLock(t)
    \/ Insert(t)

\* Any number of callers of get_model_by_key, any interleaving.
Init ==
    ResolverInit /\ BakeIdle /\ FrameIdle /\ CompileIdle /\ SwapIdle /\ StorageIdle

Next == \E t \in Threads : Call(t) \/ ResolverStep(t)

Spec == Init /\ [][Next]_vars

\* Calls for one state string in sequence, other state strings interleaved.
NextSeq == \E t \in Threads : CallInSequence(t) \/ ResolverStep(t)

SpecSeq == Init /\ [][NextSeq]_vars

\* Callers of one Multipart block only, any interleaving: every race on its
\* cache, without the calls on the Variants block that never touch it.
CallMultipart(t) ==
    \E b \in 1..Len(blocks), key \in KeyInputs :
        blocks[b].type = "Multipart" /\ BeginCall(t, b, key)

NextMultipart ==
    \E t \in Threads :
        \/ CallMultipart(t)
        \/ ReadLock(t)
        \/ Lookup(t)
        \/ Generate(t)
        \/ WriteLock(t)
        \/ Insert(t)

SpecMultipart == Init /\ [][NextMultipart]_vars

\* bake over every small world, filter, chunk position and is_section_empty.
BakeInit ==
    /\ ResolverIdle /\ FrameIdle /\ CompileIdle /\ SwapIdle /\ StorageIdle
    /\ dim = SmallDim
    /\ chunkPos \in ChunkPosInputs
    /\ world \in SparseWorlds(SmallDim, chunkPos) \cup FilledWorlds(SmallDim)
    /\ BakeStart

SpecBake == BakeInit /\ [][BakeStep]_vars

\* The worlds of the scan runs: no block; one section filled; one block, with
\* or without a mesh, at any height of the first column of the chunk.
ScanWorlds(d) ==
    FilledWorlds(d)
        \cup {[placed |-> p, filled |-> None] :
                 p \in {{}} \cup {{[at |-> <<0, y, 0>>, key |-> k]} :
                                    y \in 0..(d.sh * d.ns - 1), k \in KeyInputsOfGrid}}

ScanInit ==
    /\ ResolverIdle /\ FrameIdle /\ CompileIdle /\ SwapIdle /\ StorageIdle
    /\ dim = SmallDim
    /\ chunkPos = <<0, 0>>
    /\ world \in ScanWorlds(SmallDim)
    /\ BakeStart

\* bake runs on its caller's thread, which keeps executing the loop.
SpecScan == ScanInit /\ [][BakeStep]_vars /\ WF_vars(BakeStep)

\* bake of a chunk at the program's size with one section filled.
SectionInit ==
    /\ ResolverIdle /\ FrameIdle /\ CompileIdle /\ SwapIdle /\ StorageIdle
    /\ dim = ProgramDim
    /\ chunkPos \in ChunkPosInputs
    /\ world \in FilledWorlds(ProgramDim)
    /\ BakeStart

SpecSection == SectionInit /\ [][BakeRow]_vars

\* Frames of RenderGraph::render over every configuration.
FrameInitAll ==
    blocks = ResolverBlocks /\ ResolverIdle /\ BakeIdle /\ CompileIdle /\ SwapIdle
        /\ StorageIdle /\ FrameInit

FrameNext == StartFrame \/ BeginPass \/ DrawPass \/ DrawSections \/ DrawEntities

SpecFrame == FrameInitAll /\ [][FrameNext]_vars

\* Compilations of every configuration, with the resource provider changing
\* between them.
CompileInitAll ==
    blocks = ResolverBlocks /\ ResolverIdle /\ BakeIdle /\ FrameIdle /\ SwapIdle
        /\ StorageIdle /\ CompileInit

CompileNext == Compile \/ ChangeFiles

SpecCompile == CompileInitAll /\ [][CompileNext]_vars

\* Frames of RenderGraph::render with other threads taking the section
\* storage at any time.
StorageNext ==
    \/ FrameNext
    \/ \E t \in Threads : SectionsRead(t) \/ SectionsWrite(t) \/ SectionsUnlock(t)

SpecStorage == FrameInitAll /\ [][StorageNext]_vars

\* The graphs whose pipelines are the terrain and the entity pipeline.
SceneGraphs ==
    {RenderGraphNew(c) : c \in {d \in ConfigInputs :
        \A i \in 1..Len(d) : d[i].name \in {"terrain", "entities"}}}

SceneInitAll == FrameInitAll /\ graph \in SceneGraphs

\* Frames with baking threads that replace sections of the storage at any
\* time.
BakersNext ==
    \/ FrameNext
    \/ \E t \in Threads : SectionsWrite(t) \/ SectionsUpdate(t) \/ SectionsUnlock(t)

SpecBakers == SceneInitAll /\ [][BakersNext]_vars

\* Frames with other threads that change the entity instances at any time.
EntitiesNext ==
    \/ FrameNext
    \/ \E t \in Threads : EntitiesLock(t) \/ EntitiesUpdate(t) \/ EntitiesUnlock(t)

SpecEntities == SceneInitAll /\ [][EntitiesNext]_vars

\* Rebuilds of the pipelines with render threads loading them at any time.
SwapInitAll ==
    blocks = ResolverBlocks /\ ResolverIdle /\ BakeIdle /\ FrameIdle /\ CompileIdle
        /\ StorageIdle /\ SwapInit

SwapNext == BuildInit \/ BuildStore \/ \E t \in Threads : LoadPipelines(t)

SpecSwap == SwapInitAll /\ [][SwapNext]_vars

\* ------------------------------------------------------------------------
\* Properties of the resolver
\* ------------------------------------------------------------------------

\* C1: for a Multipart block, over every interleaving of concurrent
\* get_model_by_key calls, no two calls made with the same canonical state
\* string return different handles.
C1_HandleUniqueness ==
    \A r1 \in returned : \A r2 \in returned :
        (/\ blocks[r1.block].type = "Multipart"
         /\ r1.block = r2.block
         /\ r1.key_string = r2.key_string)
        => r1.handle = r2.handle

\* C2: resolve is idempotent on the handle: when the calls for one block and
\* one state string happen one after the other, with calls for other state
\* strings running before, between and beside them, every call returns the
\* handle the earlier calls returned (Variants and Multipart alike).
C2_ResolveIdempotent ==
    \A b \in 1..Len(blocks) :
        \A ks \in {r.key_string : r \in returned} :
            Cardinality({r.handle : r \in {q \in returned :
                                             q.block = b /\ q.key_string = ks}}) <= 1

\* Two calls have returned the same cached Multipart mesh with handle 1: the
\* second was a hit on the entry the first inserted behind another state
\* string's entry.
C2_Witness ==
    \E t \in Threads : \E u \in Threads \ {t} :
        /\ ret[t] # None /\ ret[u] = ret[t]
        /\ ret[t].mesh.arc > 0
        /\ ret[t].handle = 1

\* ------------------------------------------------------------------------
\* Properties of the baker
\* ------------------------------------------------------------------------

\* The cell a face looks at: north is z - 1, south z + 1, west x - 1,
\* east x + 1, up y + 1, down y - 1.
Toward(f, c) ==
    CASE f = "north" -> <<c[1], c[2], c[3] - 1>>
      [] f = "south" -> <<c[1], c[2], c[3] + 1>>
      [] f = "west"  -> <<c[1] - 1, c[2], c[3]>>
      [] f = "east"  -> <<c[1] + 1, c[2], c[3]>>
      [] f = "up"    -> <<c[1], c[2] + 1, c[3]>>
      [] f = "down"  -> <<c[1], c[2] - 1, c[3]>>

StateAt(c) == GetState(c[1], c[2], c[3])

\* The cells of the chunk, local coordinates.
ChunkCells ==
    {<<x, y, z>> : x \in 0..(CHUNK_WIDTH - 1), y \in 0..(CHUNK_HEIGHT - 1),
                   z \in 0..(CHUNK_WIDTH - 1)}

AbsoluteOf(c) == Absolute(chunkPos, c[1], c[2], c[3])

SectionOf(c) == c[2] \div CHUNK_SECTION_HEIGHT

\* is_section_empty answers true only for sections with no non-air cell.
CorrectSectionEmpty ==
    \A c \in ChunkCells : sectionEmpty[SectionOf(c)] => StateAt(AbsoluteOf(c)) = Air

\* The scan that visits every cell of the chunk volume and never skips.
RECURSIVE FullScanFrom(_)
FullScanFrom(i) ==
    IF i >= CHUNK_VOLUME THEN [panic |-> FALSE, out |-> <<>>]
    ELSE LET cell == VisitCell(i)
             rest == FullScanFrom(i + 1)
         IN IF cell.panic \/ rest.panic THEN [panic |-> TRUE, out |-> <<>>]
            ELSE [panic |-> FALSE, out |-> cell.out \o rest.out]

\* C3: given an is_section_empty that is true only for sections without a
\* non-air cell, bake with the section skip ends as the full scan does: the
\* same output sequence, element for element, or a panic where it panics.
C3_SkipEqualsFullScan ==
    CorrectSectionEmpty =>
        /\ bakePc = "done" =>
              ~FullScanFrom(0).panic /\ vertices = FullScanFrom(0).out
        /\ bakePc = "panic" => FullScanFrom(0).panic

\* bake has returned vertices after skipping a section that is_section_empty
\* rightly reported empty.
C3_Witness ==
    /\ bakePc = "done"
    /\ CorrectSectionEmpty
    /\ \E s \in DOMAIN sectionEmpty : sectionEmpty[s]
    /\ vertices # <<>>

\* A state holds a cube block whose mesh tells its neighbours not to render
\* the face they turn to it.
OccludingCube(state) ==
    /\ state.tag = "State"
    /\ ~GetBlockPanics(state)
    /\ GetBlock(state).v.models[1].shape.tag = "Cube"
    /\ ~GetBlock(state).v.models[1].flag

\* The vertices the mesh of a cube state defines for face f.
FaceVerticesOf(state, f) ==
    LET face == GetBlock(state).v.models[1].shape.faces[f]
    IN IF face.some THEN {face.v[i] : i \in 1..Len(face.v)} ELSE {}

\* Output element e was emitted for chunk cell c.
EmittedFor(e, c) == e.x = c[1] /\ e.y = c[2] /\ e.z = c[3]

\* C4: of two adjacent cells that both hold occluding cube blocks, neither
\* block's face toward the other is in the output, on each of the three axes
\* and in both directions.
C4_SharedFaceEmittedByNeither ==
    \A i \in 1..Len(vertices) : \A f \in Faces :
        LET c == <<vertices[i].x, vertices[i].y, vertices[i].z>>
        IN (OccludingCube(StateAt(AbsoluteOf(c)))
               /\ OccludingCube(StateAt(Toward(f, AbsoluteOf(c)))))
           => vertices[i].v \notin FaceVerticesOf(StateAt(AbsoluteOf(c)), f)

\* bake has returned the other faces of two adjacent occluding cubes of the
\* chunk.
C4_Witness ==
    /\ bakePc = "done"
    /\ vertices # <<>>
    /\ \E c \in ChunkCells : \E f \in Faces :
          /\ OccludingCube(StateAt(AbsoluteOf(c)))
          /\ OccludingCube(StateAt(Toward(f, AbsoluteOf(c))))
          /\ \E d \in ChunkCells : AbsoluteOf(d) = Toward(f, AbsoluteOf(c))
          /\ \E i \in 1..Len(vertices) : EmittedFor(vertices[i], c)
          /\ \E i \in 1..Len(vertices) :
                AbsoluteOf(<<vertices[i].x, vertices[i].y, vertices[i].z>>)
                    = Toward(f, AbsoluteOf(c))

\* The world holds one block, a cube with geometry for all six faces, at
\* chunk cell c, and air everywhere else.
SingleCubeAt(c) ==
    /\ ~world.filled.some
    /\ Cardinality(world.placed) = 1
    /\ \E p \in world.placed :
          /\ p.at = AbsoluteOf(c)
          /\ ~GetBlockPanics(State(p.key))
          /\ GetBlock(State(p.key)).v.models[1].shape.tag = "Cube"
          /\ \A f \in Faces : GetBlock(State(p.key)).v.models[1].shape.faces[f].some

\* The six face groups of the cube at cell c: north, east, south, west, up,
\* down, each with the vertices of that face in the mesh's order.
SixFaceGroups(c) ==
    LET state == StateAt(AbsoluteOf(c))
        shape == GetBlock(state).v.models[1].shape
        group(f) == [i \in 1..Len(shape.faces[f].v) |->
                        Mapper(shape.faces[f].v[i], c[1], c[2], c[3], state.key)]
    IN group("north") \o group("east") \o group("south") \o group("west")
          \o group("up") \o group("down")

\* C5 as stated: for every position, a single six-faced cube among air makes
\* bake return exactly its six face groups.
C5_SingleCubeSixFaces_AsStated ==
    \A c \in ChunkCells :
        (bakePc = "done" /\ SingleCubeAt(c)) => vertices = SixFaceGroups(c)

\* C5, amended: for every position, a single six-faced cube among air, whose
\* state key the filter accepts and whose section is_section_empty does not
\* report empty, makes bake return exactly its six face groups, in the order
\* north, east, south, west, up, down, and nothing else.
C5_SingleCubeSixFaces ==
    \A c \in ChunkCells :
        (/\ bakePc = "done"
         /\ SingleCubeAt(c)
         /\ Filter(StateAt(AbsoluteOf(c)).key)
         /\ ~sectionEmpty[SectionOf(c)])
        => vertices = SixFaceGroups(c)

\* bake has returned the twelve vertices of a single cube in the upper
\* section of the chunk.
C5_Witness ==
    /\ bakePc = "done"
    /\ \E c \in ChunkCells :
          /\ SingleCubeAt(c)
          /\ SectionOf(c) > 0
          /\ Filter(StateAt(AbsoluteOf(c)).key)
          /\ ~sectionEmpty[SectionOf(c)]
    /\ Len(vertices) = 12

\* The state provider returns Air for every cell.
AllAir == world.placed = {} /\ ~world.filled.some

\* C6: when every cell is air, bake returns the empty sequence (and does
\* not fail), whatever is_section_empty answers and the filter accepts.
C6_AllAirBakesEmpty == AllAir => (vertices = <<>> /\ bakePc # "panic")

\* bake has returned from an all-air chunk of which it scanned a section cell
\* by cell, with a filter that rejects some state.
C6_Witness ==
    /\ AllAir
    /\ bakePc = "done"
    /\ \E s \in DOMAIN sectionEmpty : ~sectionEmpty[s]
    /\ rejects # {}

\* Section s of the chunk is filled with one occluding cube block and every
\* other cell is air.
FilledSection(s) ==
    /\ world.placed = {}
    /\ world.filled.some
    /\ world.filled.section = s
    /\ OccludingCube(State(world.filled.key))

\* The unit faces of the output: the cell and the face name of each element.
EmittedFaces ==
    {<<vertices[i].x, vertices[i].y, vertices[i].z, vertices[i].v[2]>> :
        i \in 1..Len(vertices)}

\* The faces on the outer shell of section s: those of its cells that look
\* at a cell outside the section.
ShellFaces(s) ==
    LET lo == s * CHUNK_SECTION_HEIGHT
        hi == lo + CHUNK_SECTION_HEIGHT - 1
        last == CHUNK_WIDTH - 1
    IN {<<x, y, 0, "north">> : x \in 0..last, y \in lo..hi}
         \cup {<<x, y, last, "south">> : x \in 0..last, y \in lo..hi}
         \cup {<<0, y, z, "west">> : y \in lo..hi, z \in 0..last}
         \cup {<<last, y, z, "east">> : y \in lo..hi, z \in 0..last}
         \cup {<<x, hi, z, "up">> : x \in 0..last, z \in 0..last}
         \cup {<<x, lo, z, "down">> : x \in 0..last, z \in 0..last}

\* C7 as stated: a 16 x 16 x 16 section filled with one occluding cube block
\* among air makes bake emit exactly the faces of the outer shell, 1536 of
\* them.
C7_FilledSectionShell_AsStated ==
    \A s \in DOMAIN sectionEmpty :
        (bakePc = "done" /\ FilledSection(s))
        => (EmittedFaces = ShellFaces(s) /\ Cardinality(EmittedFaces) = 1536)

\* C7, amended: a 16 x 16 x 16 section filled with one occluding cube block
\* among air, whose state key the filter accepts and which is_section_empty
\* does not report empty, makes bake emit exactly the faces of the outer
\* shell, 6 * 16 * 16 = 1536 unit faces each emitted once, and no interior
\* face.
C7_FilledSectionShell ==
    \A s \in DOMAIN sectionEmpty :
        (/\ FilledSection(s)
         /\ Filter(world.filled.key)
         /\ ~sectionEmpty[s])
        => /\ EmittedFaces \subseteq ShellFaces(s)
           /\ bakePc # "panic"
           /\ bakePc = "done" =>
                 /\ EmittedFaces = ShellFaces(s)
                 /\ Cardinality(EmittedFaces) = 1536
                 /\ Len(vertices) = 1536 * Len(FaceVertices("stone", "north"))

\* bake has returned the shell of the filled upper section of a chunk of
\* the program's dimensions.
C7_Witness ==
    /\ bakePc = "done"
    /\ CHUNK_WIDTH = 16 /\ CHUNK_SECTION_HEIGHT = 16
    /\ FilledSection(1)
    /\ Filter(world.filled.key)
    /\ ~sectionEmpty[1]
    /\ vertices # <<>>

\* The chunk cell bake visited last.
LastVisited == <<LocalX(block_index - 1), LocalY(block_index - 1), LocalZ(block_index - 1)>>

\* C8: a neighbour whose mesh is missing from the block manager is treated
\* like air: bake never fails because of it, so a failure of bake is the
\* failure to find the mesh of the visited block itself.
C8_MissingNeighbourNeverFails ==
    bakePc = "panic" => GetBlockPanics(StateAt(AbsoluteOf(LastVisited)))

\* ------------------------------------------------------------------------
\* Properties of the frame scheduler
\* ------------------------------------------------------------------------

\* The frame has run through every pipeline of the graph.
FrameCompleted == framePc = "idle" /\ nframes > 0

\* The pipeline at position i of the graph declares a depth attachment.
DeclaresDepth(i) == graph.pipelines[i].config.depth.some

\* The positions of the passes of this frame opened with a depth clear.
DepthClears == {i \in 1..Len(passes) : passes[i].depth = "clear"}

\* C9: in every frame, of the pipelines that declare a depth attachment the
\* first in graph order opens its pass with a depth clear and every later
\* one with a depth load; at most one depth clear happens per frame, and
\* exactly one in a frame run through a graph with a depth-attached
\* pipeline. The second frame starts with the flag reset like the first.
C9_OneDepthClearPerFrame ==
    /\ Len(passes) <= Len(graph.pipelines)
    /\ \A i \in 1..Len(passes) :
          passes[i].depth =
              IF ~DeclaresDepth(i) THEN "none"
              ELSE IF \E j \in 1..(i - 1) : DeclaresDepth(j) THEN "load"
              ELSE "clear"
    /\ Cardinality(DepthClears) <= 1
    /\ (FrameCompleted /\ \E i \in 1..Len(graph.pipelines) : DeclaresDepth(i))
          => Cardinality(DepthClears) = 1

\* The second frame has run through a graph whose first pipeline declares no
\* depth: its second pass cleared depth and its third loaded it.
C9_Witness ==
    /\ nframes = 2
    /\ FrameCompleted
    /\ Len(passes) = 3
    /\ passes[1].depth = "none"
    /\ passes[2].depth = "clear"
    /\ passes[3].depth = "load"

\* C10: render opens one render pass per compiled pipeline per frame, in the
\* declaration order of the pipelines in the configuration: the passes
\* opened so far are the first pipelines of the configuration in order, and
\* a frame that has run through opened one pass for each of them.
C10_OnePassPerPipelineInOrder ==
    /\ Len(passes) <= Len(graph.config)
    /\ \A i \in 1..Len(passes) : passes[i].name = graph.config[i].name
    /\ framePc = "begin" => Len(passes) = pidx - 1
    /\ framePc = "draw" => Len(passes) = pidx
    /\ framePc = "sections" => Len(passes) = pidx
    /\ FrameCompleted => Len(passes) = Len(graph.config)

\* The second frame has opened a pass for each of three pipelines.
C10_Witness ==
    /\ nframes = 2
    /\ FrameCompleted
    /\ Len(passes) = 3
    /\ Len(graph.config) = 3

\* ------------------------------------------------------------------------
\* Properties of the render graph compiler
\* ------------------------------------------------------------------------

\* The graphs the calls of RenderGraph::new returned.
CompiledGraphs == {compiled[i].graph : i \in {j \in 1..Len(compiled) : ~compiled[j].panic}}

PipelineNamesOf(g) == {g.pipelines[i].name : i \in 1..Len(g.pipelines)}

ResourceIdsOf(g) == DOMAIN g.resources

\* C11: two compilations with the same configuration and the same caller
\* resources that both return a graph return graphs with the same set of
\* pipeline names and the same set of resource ids.
C11_RecompileSameNamesAndIds ==
    \A g1 \in CompiledGraphs : \A g2 \in CompiledGraphs :
        /\ PipelineNamesOf(g1) = PipelineNamesOf(g2)
        /\ ResourceIdsOf(g1) = ResourceIdsOf(g2)

\* Two compilations have each returned a graph of two pipelines with a
\* texture loaded from the resource provider among its resources.
C11_Witness ==
    /\ Len(compiled) = 2
    /\ ~compiled[1].panic /\ ~compiled[2].panic
    /\ Len(compiled[2].graph.pipelines) = 2
    /\ "lightmap" \in ResourceIdsOf(compiled[1].graph)
    /\ "shadow_map" \in ResourceIdsOf(compiled[1].graph)

\* The resource ids a compilation of compileIn can find in the graph's
\* resource map: the caller's, the declared textures and the reserved two.
KnownResourceIds ==
    DOMAIN compileIn.resources
        \cup {compileIn.config.resources[i].id :
                 i \in {j \in 1..Len(compileIn.config.resources) :
                           compileIn.config.resources[j].type = "Texture2d"}}
        \cup {"@texture_block_atlas", "@sampler"}

\* The resource ids the inline bind-group entries of a pipeline list name.
InlineIdsOf(pipelines) ==
    UNION {UNION {{pipelines[i].bind_groups[k].def.entries[e] :
                      e \in 1..Len(pipelines[i].bind_groups[k].def.entries)} :
                  k \in {n \in 1..Len(pipelines[i].bind_groups) :
                            pipelines[i].bind_groups[n].def.tag = "Entries"}} :
           i \in 1..Len(pipelines)}

\* C14: when an inline bind-group entry names a resource id absent from the
\* graph's resource map, compilation aborts and returns no graph; a graph
\* that is returned binds every inline entry of its configuration to a
\* resource of its map, none left out.
C14_UnknownInlineResourceIsFatal ==
    /\ ~(InlineIdsOf(compileIn.config.pipelines) \subseteq KnownResourceIds)
          => \A i \in 1..Len(compiled) : compiled[i].panic
    /\ \A g \in CompiledGraphs :
          /\ InlineIdsOf(g.config) \subseteq DOMAIN g.resources
          /\ \A i \in 1..Len(g.pipelines) :
                \A k \in 1..Len(g.pipelines[i].bind_groups) :
                    g.config[i].bind_groups[k].def.tag = "Entries"
                       => /\ g.pipelines[i].bind_groups[k].tag = "Custom"
                          /\ g.pipelines[i].bind_groups[k].entries
                                = g.config[i].bind_groups[k].def.entries

\* A compilation has aborted on a configuration whose only fault is an
\* inline entry "lightmap" that nothing declares or supplies.
C14_Witness ==
    /\ compileIn.config.pipelines = <<CompilePool[3]>>
    /\ compileIn.config.resources = <<>>
    /\ "lightmap" \notin KnownResourceIds
    /\ Len(compiled) > 0
    /\ compiled[1].panic

\* ------------------------------------------------------------------------
\* Properties of the rebuild
\* ------------------------------------------------------------------------

\* A manager holds one pipeline for each shader it was built from, and at
\* least one.
CompleteManager(m) == m.pipelines = m.shaders /\ m.pipelines # {}

\* C12: what a render thread loads, also while a rebuild is in flight, is a
\* complete pipeline set, the previous one (before the store) or the new one
\* (after it), never an empty or partly filled one; and a load is possible
\* in every state, whatever the rebuild is doing.
C12_AtomicPublish ==
    /\ CompleteManager(wmPipelines)
    /\ \A t \in Threads :
          /\ observed[t].some =>
                /\ CompleteManager(observed[t].v)
                /\ observed[t].v.build <= nbuilds
                /\ observed[t].rebuilding => observed[t].v.build < nbuilds
          /\ ENABLED LoadPipelines(t)

\* One render thread loaded the previous pipelines while the rebuild was in
\* flight and another loaded the new ones after the store.
C12_Witness ==
    \E t \in Threads : \E u \in Threads :
        /\ observed[t].some /\ observed[t].rebuilding /\ observed[t].v.build = 0
        /\ observed[u].some /\ observed[u].v.build = 1
        /\ observed[u].v.shaders # observed[t].v.shaders

\* ------------------------------------------------------------------------
\* Properties of the passes
\* ------------------------------------------------------------------------

\* C13: while the terrain pass is in flight the render thread holds the
\* section storage as a reader only: no thread is writing it at that time
\* (a baking thread waits for the pass to finish), and every other thread
\* that wants to read it can enter.
C13_TerrainPassHoldsSharedLock ==
    framePc = "sections" =>
        /\ section_storage.writer = NoThread
        /\ RenderThread \in section_storage.readers
        /\ \A t \in Threads : storagePc[t] # "writing"
        /\ \A t \in Threads : storagePc[t] = "out" => ENABLED SectionsRead(t)

\* Pipeline i of the graph takes its geometry from a provider.
CustomGeometry(i) ==
    graph.pipelines[i].config.geometry \notin {"@geo_terrain", "@geo_entities"}

\* The draws of the current frame issued in the pass of pipeline i.
DrawsInPass(i) == {k \in 1..Len(draws) : draws[k].pass = graph.pipelines[i].name}

\* C15: a pass whose geometry kind is neither terrain nor entities and that
\* the frame has gone through called the provider registered under exactly
\* that kind name in the geometry map of this frame, once; with no provider
\* under that name the next step of the frame is the fatal error, so the
\* pass is never passed over.
C15_CustomGeometryDelegated ==
    /\ [](\A i \in 1..Len(graph.pipelines) :
            (CustomGeometry(i) /\ i < pidx) =>
                /\ graph.pipelines[i].config.geometry \in providers
                /\ Cardinality(DrawsInPass(i)) = 1
                /\ \A k \in DrawsInPass(i) :
                      /\ draws[k].kind = "provider"
                      /\ draws[k].target = graph.pipelines[i].config.geometry)
    /\ [][(/\ framePc = "draw"
            /\ CustomGeometry(pidx)
            /\ graph.pipelines[pidx].config.geometry \notin providers)
              => framePc' = "panic"]_vars

\* A frame has gone through a graph with a sky pipeline whose provider was
\* handed to render with that frame, after the graph was compiled.
C15_Witness ==
    /\ FrameCompleted
    /\ \E i \in 1..Len(graph.pipelines) :
          /\ CustomGeometry(i)
          /\ graph.pipelines[i].config.geometry \in providers
          /\ Cardinality(DrawsInPass(i)) = 1
    /\ Len(graph.pipelines) > 1

\* ------------------------------------------------------------------------
\* Properties of the Variants lookup and of the seed
\* ------------------------------------------------------------------------

\* The entries of a table under a state string (1-based positions).
EntriesUnder(entries, k) == {i \in 1..Len(entries) : entries[i].key = k}

\* Thread t returns from get_model_by_key in this step.
Returns(t) == pc[t] # "idle" /\ pc'[t] = "idle"

\* C16: a call on a Variants block returns, for a state string the table
\* holds, the index of exactly that entry as handle (with a mesh of that
\* entry), and None for a state string the table does not hold; the table is
\* the one built at load time in every state.
C16_VariantsExactMatch ==
    /\ [](blocks[1] = VariantsBlock)
    /\ [][\A t \in Threads :
            (Returns(t) /\ blocks[call[t].block].type = "Variants") =>
                LET variants == blocks[call[t].block].variants
                    present == EntriesUnder(variants, call[t].key_string)
                IN /\ present = {} => ret'[t] = None
                   /\ \A i \in present :
                         /\ ret'[t].some
                         /\ ret'[t].handle = i - 1
                         /\ \E c \in 1..Len(variants[i].value) :
                               ret'[t].mesh = variants[i].value[c]]_vars

\* The one call made so far was for a state string the Variants table does not
\* hold (a Multipart call always returns Some) and it has returned None.
C16_Witness ==
    /\ ncalls = 1
    /\ \A t \in Threads : pc[t] = "idle" /\ ret[t] = None
    /\ returned = {}
    /\ blocks[1] = VariantsBlock

\* C17: the seed does not reach the result. In every state get_model gives
\* the same mesh for every pair of seeds, and so does the Variants lookup of
\* get_model_by_key for every state string; a Variants call that returns Some
\* returns candidate 0 of the entry whatever seed it was called with; a
\* Multipart call returns the mesh the cache holds for the state string and a
\* handle read from the cache alone.
C17_SeedIndependent ==
    /\ [](\A b \in 1..Len(blocks) : \A s1 \in SeedInputs : \A s2 \in SeedInputs :
            /\ \A k \in 0..3 :
                  ~GetModelPanics(blocks[b], k) =>
                      /\ GetModel(blocks[b], k, s1) = GetModel(blocks[b], k, s2)
                      /\ blocks[b].type = "Variants" =>
                            GetModel(blocks[b], k, s1) = blocks[b].variants[k + 1].value[1]
            /\ blocks[b].type = "Variants" =>
                  \A key \in KeyInputs :
                      VariantsGet(blocks[b].variants, KeyString(key), s1)
                          = VariantsGet(blocks[b].variants, KeyString(key), s2))
    /\ [][\A t \in Threads :
            (Returns(t) /\ ret'[t].some) =>
                LET b == call[t].block
                    ks == call[t].key_string
                IN IF blocks[b].type = "Variants"
                   THEN ret'[t].mesh
                            = blocks[b].variants[ret'[t].handle + 1].value[1]
                   ELSE LET keys == blocks'[b].keys
                        IN /\ \A i \in EntriesUnder(keys, ks) :
                                 ret'[t].mesh = keys[i].value
                           /\ ret'[t].handle + 1
                                 \in EntriesUnder(keys, ks) \cup {Len(keys)}]_vars

\* A call for the state string whose entry has two candidate meshes has
\* returned that entry's handle, and the mesh the thread holds from it is
\* candidate 0, while seed 7 would index candidate 1.
C17_Witness ==
    /\ \E r \in returned :
          r.block = 1 /\ r.key_string = "north=true" /\ r.handle = 1
    /\ 7 \in SeedInputs /\ 7 % Len(VariantsBlock.variants[2].value) = 1
    /\ \E t \in Threads :
          /\ pc[t] = "idle" /\ ret[t].some
          /\ ret[t].handle = 1
          /\ ret[t].mesh = VariantsBlock.variants[2].value[1]
    /\ Len(VariantsBlock.variants[2].value) = 2

\* ------------------------------------------------------------------------
\* Properties of the Multipart cache
\* ------------------------------------------------------------------------

MultipartBlocks == {b \in 1..Len(blocks) : blocks[b].type = "Multipart"}

\* C18: in every state a Multipart cache holds at most one entry per state
\* string, and every step leaves each entry at its index under its state
\* string: the cache never shrinks and no index passes to another string.
C18_CacheAppendOnly ==
    /\ [](\A b \in MultipartBlocks :
            \A i \in 1..Len(blocks[b].keys) : \A j \in 1..Len(blocks[b].keys) :
                blocks[b].keys[i].key = blocks[b].keys[j].key => i = j)
    /\ [][\A b \in MultipartBlocks :
            /\ Len(blocks'[b].keys) >= Len(blocks[b].keys)
            /\ \A i \in 1..Len(blocks[b].keys) :
                  blocks'[b].keys[i].key = blocks[b].keys[i].key]_vars

\* Three meshes were baked and inserted and the cache holds two entries: one
\* insert found its state string already in the cache, with another string's
\* entry possibly behind it.
C18_Witness ==
    /\ \A t \in Threads : pc[t] = "idle"
    /\ narcs = 3
    /\ \E b \in MultipartBlocks :
          /\ Len(blocks[b].keys) = 2
          /\ blocks[b].keys[1].value.arc > blocks[b].keys[2].value.arc

\* C19: a handle returned for a state string of a Multipart block is, in the
\* state of the return and in every later state, the index of the entry of
\* that state string, so that get_model of the handle is the mesh cached for it.
C19_HandleMeshConsistency ==
    \A r \in returned :
        r.block \in MultipartBlocks =>
            /\ ~GetModelPanics(blocks[r.block], r.handle)
            /\ r.handle + 1 \in EntriesUnder(blocks[r.block].keys, r.key_string)

\* C20: an insert that finds its state string already in the cache (the
\* other racer of the same miss inserted first) leaves exactly one entry for
\* the string, holding the mesh of this insert; the mesh the entry held is no
\* longer in the cache, and the call returns Some like the earlier one did.
C20_RacingInsertReplaces ==
    [][\A t \in Threads :
          (pc[t] = "insert" /\ Returns(t)) =>
              LET b == call[t].block
                  ks == call[t].key_string
                  before == blocks[b].keys
                  after == blocks'[b].keys
              IN /\ Cardinality(EntriesUnder(after, ks)) = 1
                 /\ \A i \in EntriesUnder(after, ks) : after[i].value = mesh[t]
                 /\ \A i \in EntriesUnder(before, ks) :
                       \A j \in 1..Len(after) : after[j].value # before[i].value
                 /\ ret'[t].some /\ ret'[t].mesh = mesh[t]
                 /\ Len(after) = Len(before)
                       + (IF EntriesUnder(before, ks) = {} THEN 1 ELSE 0)]_vars

\* Two callers missed on the same state string, both baked and both have
\* inserted and returned Some: the cache holds one entry, with the mesh of one
\* of them, and the other caller holds the mesh that was replaced.
C20_Witness ==
    \E t \in Threads : \E u \in Threads \ {t} :
        /\ pc[t] = "idle" /\ pc[u] = "idle"
        /\ ret[t].some /\ ret[u].some
        /\ ret[t].mesh.arc > 0 /\ ret[u].mesh.arc > 0
        /\ ret[t].mesh.arc # ret[u].mesh.arc
        /\ narcs = 2
        /\ \E b \in MultipartBlocks :
              /\ Len(blocks[b].keys) = 1
              /\ blocks[b].keys[1].value = ret[u].mesh

\* ------------------------------------------------------------------------
\* Properties of the locking of the Multipart cache
\* ------------------------------------------------------------------------

\* The threads other than t hold no lock of the cache.
OthersHoldNothing(t) == \A w \in Threads \ {t} : pc[w] \notin {"lookup", "insert"}

\* C21: a caller that generates a mesh, or waits for the write lock after
\* generating, holds no lock of any cache; the write lock is held only by a
\* caller at its insert and the read lock only by a caller at its lookup; so
\* while a caller generates, a reader or an inserter that no other thread
\* stands in the way of can take the lock.
C21_GenerateOutsideLocks ==
    \A t \in Threads :
        /\ \A b \in 1..Len(blocks) :
              /\ keysLock[b].writer = t => (pc[t] = "insert" /\ call[t].block = b)
              /\ t \in keysLock[b].readers => (pc[t] = "lookup" /\ call[t].block = b)
        /\ pc[t] = "generate" =>
              \A u \in Threads \ {t} :
                  /\ (pc[u] = "read" /\ OthersHoldNothing(t)) => ENABLED ReadLock(u)
                  /\ (pc[u] = "write" /\ OthersHoldNothing(t)) => ENABLED WriteLock(u)

\* While one caller is generating a mesh for a block, a second caller holds
\* the write lock of that block's cache for its insert and a third one waits
\* to read.
C21_Witness ==
    \E t \in Threads : \E u \in Threads \ {t} : \E r \in Threads \ {t, u} :
        /\ pc[t] = "generate" /\ pc[u] = "insert" /\ pc[r] = "read"
        /\ call[u].block = call[t].block /\ call[r].block = call[t].block
        /\ keysLock[call[t].block].writer = u

\* C22: the lookup step of a call whose state string is in the cache ends the
\* call: it returns the cached mesh and the index of the entry, bakes no mesh,
\* leaves every cache as it is, and the caller, who held the read lock only,
\* holds no lock afterwards.
C22_HitIsReadOnly ==
    [][\A t \in Threads :
          (/\ pc[t] = "lookup" /\ pc'[t] # "lookup"
           /\ EntriesUnder(blocks[call[t].block].keys, call[t].key_string) # {}) =>
              LET b == call[t].block
                  keys == blocks[b].keys
              IN /\ pc'[t] = "idle"
                 /\ blocks' = blocks
                 /\ narcs' = narcs
                 /\ mesh'[t] = None
                 /\ ret'[t].some
                 /\ \A i \in EntriesUnder(keys, call[t].key_string) :
                       ret'[t].mesh = keys[i].value /\ ret'[t].handle = i - 1
                 /\ keysLock[b].writer = NoThread
                 /\ t \in keysLock[b].readers
                 /\ keysLock'[b] = [keysLock[b] EXCEPT !.readers = @ \ {t}]]_vars

\* Of three calls two baked a mesh and the third was a hit on the first entry
\* of a cache of two: it returned the mesh and handle 0 of the call that
\* inserted it.
C22_Witness ==
    /\ ncalls = 3 /\ narcs = 2
    /\ \E t \in Threads : \E u \in Threads \ {t} : \E w \in Threads \ {t, u} :
          /\ pc[t] = "idle" /\ pc[u] = "idle" /\ pc[w] = "idle"
          /\ ret[t].some /\ ret[u] = ret[t] /\ ret[t].handle = 0
          /\ ret[w].some /\ ret[w].handle = 1
    /\ \E b \in MultipartBlocks : Len(blocks[b].keys) = 2

\* ------------------------------------------------------------------------
\* Properties of the state string
\* ------------------------------------------------------------------------

\* Two property lists with the same property=value pairs in different orders.
PairsOf(key) == {key[i] : i \in 1..Len(key)}
Reordered(k1, k2) == k1 # k2 /\ PairsOf(k1) = PairsOf(k2)

\* C23: the state strings of two reorderings of one set of pairs differ, the
\* cache of a Multipart block never holds both under one entry, and two calls
\* that returned for the two strings returned two distinct handles.
C23_OrderGivesDistinctHandles ==
    \A k1 \in KeyInputs : \A k2 \in KeyInputs :
        Reordered(k1, k2) =>
            /\ KeyString(k1) # KeyString(k2)
            /\ \A b \in MultipartBlocks :
                  EntriesUnder(blocks[b].keys, KeyString(k1))
                      \cap EntriesUnder(blocks[b].keys, KeyString(k2)) = {}
            /\ \A r1 \in returned : \A r2 \in returned :
                  (/\ r1.block \in MultipartBlocks /\ r2.block = r1.block
                   /\ r1.key_string = KeyString(k1)
                   /\ r2.key_string = KeyString(k2)) => r1.handle # r2.handle

\* ------------------------------------------------------------------------
\* Properties of the faces bake emits
\* ------------------------------------------------------------------------

\* The block index of a chunk cell.
IndexOf(c) == c[1] + c[3] * CHUNK_WIDTH + c[2] * CHUNK_AREA

\* The loop has gone through chunk cell c, which holds a block with a mesh of
\* the given shape that the filter accepts, in a section not reported empty.
VisitedShape(c, tag) ==
    LET own == StateAt(AbsoluteOf(c))
    IN /\ block_index > IndexOf(c)
       /\ ~sectionEmpty[SectionOf(c)]
       /\ own.tag = "State"
       /\ Filter(own.key)
       /\ ~GetBlockPanics(own)
       /\ GetBlock(own).v.models[1].shape.tag = tag

\* A neighbour state lets the face turned to it be rendered: air, a state the
\* block manager has no mesh for, or a mesh whose flag says so.
LetsFaceRender(state) ==
    \/ state.tag = "Air"
    \/ GetBlockPanics(state)
    \/ GetBlock(state).v.models[1].flag

\* Some element of the output is a vertex of face f emitted for cell c.
FaceEmitted(c, f) ==
    \E i \in 1..Len(vertices) :
        /\ EmittedFor(vertices[i], c)
        /\ vertices[i].v \in FaceVerticesOf(StateAt(AbsoluteOf(c)), f)

\* C24: visiting a Cube cell never fails on what a neighbour cell holds, and
\* each face of the cube is in the output exactly when the mesh defines it
\* and the neighbour in that one direction is air, has no mesh, or has a mesh
\* whose flag lets the face be rendered.
C24_CubeFaceRule ==
    \A c \in ChunkCells :
        VisitedShape(c, "Cube") =>
            /\ ~(bakePc = "panic" /\ block_index = IndexOf(c) + 1)
            /\ bakePc # "panic" =>
                  \A f \in Faces :
                      FaceEmitted(c, f) <=>
                          /\ FaceVerticesOf(StateAt(AbsoluteOf(c)), f) # {}
                          /\ LetsFaceRender(StateAt(Toward(f, AbsoluteOf(c))))

\* The vertices a Complex mesh defines: those of every face of every group.
GroupVerticesOf(state) ==
    LET groups == GetBlock(state).v.models[1].shape.groups
    IN UNION {UNION {IF groups[g][f].some
                     THEN {groups[g][f].v[i] : i \in 1..Len(groups[g][f].v)}
                     ELSE {} : f \in Faces} : g \in 1..Len(groups)}

\* The positions of the output that hold elements emitted for cell c.
ElementsFor(c) == {i \in 1..Len(vertices) : EmittedFor(vertices[i], c)}

\* C25: a visited Complex cell has every vertex of every defined face of
\* every face group in the output, each once and nothing else for that cell,
\* whatever its six neighbour cells hold (an occluding cube, a state without
\* a mesh, air), and the visit does not fail.
C25_ComplexEmittedWhole ==
    \A c \in ChunkCells :
        VisitedShape(c, "Complex") =>
            /\ ~(bakePc = "panic" /\ block_index = IndexOf(c) + 1)
            /\ bakePc # "panic" =>
                  /\ \A v \in GroupVerticesOf(StateAt(AbsoluteOf(c))) :
                        Cardinality({i \in ElementsFor(c) : vertices[i].v = v}) = 1
                  /\ \A i \in ElementsFor(c) :
                        vertices[i].v \in GroupVerticesOf(StateAt(AbsoluteOf(c)))

\* bake has returned the eight vertices of a Complex block that has an
\* occluding cube in the cell one of its defined faces is turned to.
C25_Witness ==
    /\ bakePc = "done"
    /\ \E c \in ChunkCells :
          /\ VisitedShape(c, "Complex")
          /\ Cardinality(ElementsFor(c)) = 8
          /\ \E f \in {"north", "east", "up"} :
                OccludingCube(StateAt(Toward(f, AbsoluteOf(c))))

\* C26: every element of the output carries a state key the filter accepts,
\* and that key is the state key of the chunk cell whose local coordinates the
\* element carries.
C26_OnlyAcceptedStates ==
    \A i \in 1..Len(vertices) :
        /\ vertices[i].key \notin rejects
        /\ <<vertices[i].x, vertices[i].y, vertices[i].z>> \in ChunkCells
        /\ StateAt(AbsoluteOf(<<vertices[i].x, vertices[i].y, vertices[i].z>>))
              = State(vertices[i].key)

\* bake has returned the vertices of an accepted block while the chunk also
\* holds, in a section it scanned, a block with a mesh that the filter rejects.
C26_Witness ==
    /\ bakePc = "done"
    /\ vertices # <<>>
    /\ \E c \in ChunkCells :
          /\ StateAt(AbsoluteOf(c)).tag = "State"
          /\ StateAt(AbsoluteOf(c)).key \in rejects
          /\ ~GetBlockPanics(StateAt(AbsoluteOf(c)))
          /\ ~sectionEmpty[SectionOf(c)]

\* What a bake that accepts every state emits for chunk cell c, as a set: for
\* a Cube the defined faces whose neighbour lets them render, for a Complex
\* mesh every vertex, each with the local coordinates and the key of the cell.
\* The filter is not read.
ExpectedFor(c) ==
    LET own == StateAt(AbsoluteOf(c))
        shape == GetBlock(own).v.models[1].shape
        vs == IF shape.tag = "Cube"
              THEN UNION {IF LetsFaceRender(StateAt(Toward(f, AbsoluteOf(c))))
                          THEN FaceVerticesOf(own, f) ELSE {} : f \in Faces}
              ELSE GroupVerticesOf(own)
    IN {[v |-> v, x |-> c[1], y |-> c[2], z |-> c[3], key |-> own.key] : v \in vs}

\* The cells a bake scans that hold a state.
ScannedStates ==
    {c \in ChunkCells : StateAt(AbsoluteOf(c)).tag = "State" /\ ~sectionEmpty[SectionOf(c)]}

\* C27: what a bake returns is what the accept-all bake emits for the cells
\* whose state the filter accepts, nothing more and nothing less: a face
\* turned to a rejected occluding neighbour stays culled, so the outputs of
\* the bakes over a partition of the states add up to the accept-all output.
C27_CullingIgnoresFilter ==
    bakePc = "done" =>
        {vertices[i] : i \in 1..Len(vertices)}
            = UNION {ExpectedFor(c) :
                       c \in {d \in ScannedStates : StateAt(AbsoluteOf(d)).key \notin rejects}}

\* bake has returned six of the eight vertices of an accepted cube: the face
\* turned to an occluding cube that the filter rejects is not among them.
C27_Witness ==
    /\ bakePc = "done"
    /\ \E c \in ChunkCells : \E f \in Faces :
          /\ VisitedShape(c, "Cube")
          /\ FaceVerticesOf(StateAt(AbsoluteOf(c)), f) # {}
          /\ OccludingCube(StateAt(Toward(f, AbsoluteOf(c))))
          /\ StateAt(Toward(f, AbsoluteOf(c))).key \in rejects
          /\ ~FaceEmitted(c, f)
          /\ Cardinality(ElementsFor(c)) = 6

\* An absolute position outside the chunk being baked.
OutsideChunk(a) == \A c \in ChunkCells : AbsoluteOf(c) # a

\* C28: every element of the output carries the local coordinates of a chunk
\* cell and the state the provider holds at that cell's absolute position;
\* and a face of a visited cube whose neighbour position lies outside the
\* chunk is emitted exactly when the state the provider holds at that
\* absolute position lets it render.
C28_AbsoluteReadsLocalOutput ==
    /\ \A i \in 1..Len(vertices) :
          LET c == <<vertices[i].x, vertices[i].y, vertices[i].z>>
          IN c \in ChunkCells /\ StateAt(AbsoluteOf(c)) = State(vertices[i].key)
    /\ bakePc = "done" =>
          \A c \in ChunkCells : \A f \in Faces :
              (VisitedShape(c, "Cube") /\ OutsideChunk(Toward(f, AbsoluteOf(c)))) =>
                  (FaceEmitted(c, f) <=>
                      /\ FaceVerticesOf(StateAt(AbsoluteOf(c)), f) # {}
                      /\ LetsFaceRender(StateAt(Toward(f, AbsoluteOf(c)))))

\* bake of the chunk at (1, -1) has returned a cube on the chunk border
\* without the face turned to an occluding cube of the adjacent chunk; the
\* elements carry the cell's local coordinates, which are not its absolute ones.
C28_Witness ==
    /\ bakePc = "done"
    /\ chunkPos = <<1, -1>>
    /\ \E c \in ChunkCells : \E f \in {"north", "south", "east", "west"} :
          /\ VisitedShape(c, "Cube")
          /\ OutsideChunk(Toward(f, AbsoluteOf(c)))
          /\ OccludingCube(StateAt(Toward(f, AbsoluteOf(c))))
          /\ FaceVerticesOf(StateAt(AbsoluteOf(c)), f) # {}
          /\ ~FaceEmitted(c, f)
          /\ ElementsFor(c) # {}
          /\ AbsoluteOf(c) # c

\* ------------------------------------------------------------------------
\* Properties of the scan
\* ------------------------------------------------------------------------

\* The scan order: x fastest, then z, then y.
ScanIndex(x, y, z) == x + (z * CHUNK_WIDTH) + (y * CHUNK_WIDTH * CHUNK_WIDTH)

SectionVolume == CHUNK_WIDTH * CHUNK_WIDTH * CHUNK_SECTION_HEIGHT

\* C29: bake ends; while the loop runs every iteration moves the index
\* forward, by a whole section from the first cell of a section reported
\* empty and by one cell otherwise, never beyond the chunk volume, and the
\* loop ends at the volume; the elements an iteration appends carry the
\* coordinates of the index it started from, so the cells of the other
\* sections are each visited once, x fastest, then z, then y.
C29_ScanTerminatesInOrder ==
    /\ <>(bakePc # "loop")
    /\ [](block_index \in 0..CHUNK_VOLUME)
    /\ [][bakePc = "loop" =>
            IF block_index = CHUNK_VOLUME
            THEN bakePc' = "done" /\ block_index' = block_index /\ vertices' = vertices
            ELSE IF block_index % SectionVolume = 0
                    /\ sectionEmpty[block_index \div SectionVolume]
            THEN /\ block_index' = block_index + SectionVolume
                 /\ bakePc' = "loop" /\ vertices' = vertices
            ELSE /\ block_index' = block_index + 1
                 /\ bakePc' \in {"loop", "panic"}
                 /\ bakePc' = "loop" =>
                       /\ Len(vertices') >= Len(vertices)
                       /\ SubSeq(vertices', 1, Len(vertices)) = vertices
                       /\ \A i \in (Len(vertices) + 1)..Len(vertices') :
                             ScanIndex(vertices'[i].x, vertices'[i].y, vertices'[i].z)
                                 = block_index]_vars

\* bake has returned after skipping the lower section from its first cell
\* and visiting every cell of the upper one, where it found a block.
C29_Witness ==
    /\ bakePc = "done"
    /\ block_index = CHUNK_VOLUME
    /\ sectionEmpty[0] /\ ~sectionEmpty[1]
    /\ \E i \in 1..Len(vertices) : vertices[i].y >= CHUNK_SECTION_HEIGHT

\* ------------------------------------------------------------------------
\* Properties of the terrain pass
\* ------------------------------------------------------------------------

\* The draws of the pass of pipeline i issued for section s.
SectionDraws(i, s) ==
    {k \in DrawsInPass(i) : draws[k].kind = "section" /\ draws[k].target = s}

\* C30: a terrain pass the frame has gone through issued, for every loaded
\* section, one indexed draw when the section passes the frustum test and
\* has a Solid layer and none otherwise, and no other draw: as many draws as
\* there are visible sections with a Solid layer.
C30_TerrainDrawsPerSection ==
    \A i \in 1..Len(graph.pipelines) :
        (graph.pipelines[i].config.geometry = "@geo_terrain" /\ i < pidx) =>
            /\ \A s \in 1..Len(scene.sections) :
                  Cardinality(SectionDraws(i, s)) =
                      IF scene.sections[s].visible /\ scene.sections[s].solid
                      THEN 1 ELSE 0
            /\ Cardinality(DrawsInPass(i)) =
                  Cardinality({s \in 1..Len(scene.sections) :
                                 scene.sections[s].visible /\ scene.sections[s].solid})

\* A frame has gone through a terrain pass over three loaded sections, one
\* visible with a Solid layer, one outside the frustum and one without a
\* Solid layer: the pass issued one draw.
C30_Witness ==
    /\ FrameCompleted
    /\ Len(scene.sections) = 3
    /\ \E s \in 1..Len(scene.sections) : ~scene.sections[s].visible /\ scene.sections[s].solid
    /\ \E s \in 1..Len(scene.sections) : scene.sections[s].visible /\ ~scene.sections[s].solid
    /\ \E i \in 1..Len(graph.pipelines) :
          /\ graph.pipelines[i].config.geometry = "@geo_terrain"
          /\ Cardinality(DrawsInPass(i)) = 1

\* ------------------------------------------------------------------------
\* Properties of the locks of the scene
\* ------------------------------------------------------------------------

\* The render thread holds the section storage, as its writer or a reader.
RenderHoldsSections ==
    section_storage.writer = RenderThread \/ RenderThread \in section_storage.readers

\* The sections a terrain pass over the list `sections` draws, in order.
SectionDrawsOf(name, sections) ==
    DrawsOf(name, "section",
            {i \in 1..Len(sections) : sections[i].visible /\ sections[i].solid})

\* C31: while the terrain pass iterates the loaded sections the render thread
\* holds the storage and no baking thread holds or can take its write guard
\* or update the sections; no step taken during the iteration changes the
\* sections, and the draws of the pass are those of the sections as they are
\* in the storage at that time, so an update made before the pass took the
\* lock is seen by it and one waiting for the lock is seen by the next pass.
C31_PassSeesOneStorageState ==
    /\ [](framePc = "sections" =>
            /\ RenderHoldsSections
            /\ \A t \in Threads :
                  /\ storagePc[t] # "writing"
                  /\ ~ENABLED SectionsWrite(t)
                  /\ ~ENABLED SectionsUpdate(t))
    /\ [][framePc = "sections" =>
            /\ scene'.sections = scene.sections
            /\ framePc' \in {"begin", "idle"} =>
                  draws' = draws \o SectionDrawsOf(graph.pipelines[pidx].name,
                                                    scene.sections)]_vars

\* A terrain pass is iterating sections that a baking thread has replaced.
C31_Witness ==
    /\ framePc = "sections"
    /\ scene.sections # <<>>
    /\ scene.sections \notin {s.sections : s \in SceneInputs}
    /\ \A t \in Threads : storagePc[t] = "out"

\* C32: in an entity pass the render thread holds the mutex of the entity
\* instances only to clone them: while the pass sets bind groups and draws,
\* the render thread does not hold the mutex and another thread can take it
\* whenever it is free; the clone is the live map of the moment of the
\* clone, it does not change during the pass whatever happens to the live
\* map, and the pass issues one instanced draw per batch of the clone.
C32_EntityPassDrawsFromClone ==
    /\ [](framePc = "entities" =>
            /\ entity_instances # RenderThread
            /\ \A t \in Threads :
                  entity_instances = NoThread => ENABLED EntitiesLock(t))
    /\ [][/\ framePc = "draw" /\ framePc' = "entities" => instances' = scene.entities
          /\ framePc = "entities" =>
                /\ instances' = instances
                /\ framePc' \in {"begin", "idle"} =>
                      draws' = draws \o DrawsOf(graph.pipelines[pidx].name, "entity",
                                                1..instances)]_vars

\* An entity pass is drawing from a clone of two batches while another thread
\* holds the mutex and has changed the live entity instances.
C32_Witness ==
    /\ framePc = "entities"
    /\ instances > 0
    /\ scene.entities # instances
    /\ entity_instances \in Threads

\* ------------------------------------------------------------------------
\* Properties of compiled configurations at render time
\* ------------------------------------------------------------------------

\* create_pipelines accepts the push constants and the named bind groups of
\* this pipeline when the caller supplies no custom bind groups
\* (graph.rs 167-179, 215-245).
AcceptedAtCompile(pipeline_config) ==
    /\ \A i \in 1..Len(pipeline_config.push_constants) :
          pipeline_config.push_constants[i] \in PushConstantNames
    /\ \A i \in 1..Len(pipeline_config.bind_groups) :
          pipeline_config.bind_groups[i].def.tag = "Resource" =>
              ~NamedBindGroupPanics(pipeline_config.bind_groups[i].def.name, None)

\* render has panicked in the geometry arm of the pass it has opened for the
\* pipeline at pidx.
PanickedInDraw ==
    /\ framePc = "panic"
    /\ passes # <<>>
    /\ passes[Len(passes)].name = graph.pipelines[pidx].name

\* C33: a terrain or entity pipeline whose push constants and named bind
\* groups create_pipelines accepts never makes its pass fail with a
\* configuration error when it draws.
C33_AcceptedConfigDrawsWithoutError ==
    PanickedInDraw =>
        LET pipeline_config == ConfigOf(graph.pipelines[pidx].name)
        IN pipeline_config.geometry \in {"@geo_terrain", "@geo_entities"} =>
               ~AcceptedAtCompile(pipeline_config)

\* The named bind-group references of a pipeline list.
NamedReferencesOf(pipelines) ==
    UNION {{pipelines[i].bind_groups[k].def.name :
               k \in {j \in 1..Len(pipelines[i].bind_groups) :
                         pipelines[i].bind_groups[j].def.tag = "Resource"}} :
           i \in 1..Len(pipelines)}

\* The caller's custom bind-group map holds this name.
InCustomMap(name) ==
    compileIn.custom_bind_groups.some /\ name \in compileIn.custom_bind_groups.v

\* C34: a compilation whose configuration names a bind group that is neither
\* @bg_ssbo_chunks, @bg_entity nor a key of the caller's custom map (any
\* other name when there is no custom map) aborts; in a graph that is
\* returned @bg_ssbo_chunks and @bg_entity have the built-in layouts even
\* when the custom map has an entry of that name, and every other name has
\* the layout of its entry of the custom map.
C34_NamedBindGroupResolution ==
    \A n \in 1..Len(compiled) :
        /\ (\E name \in NamedReferencesOf(compileIn.config.pipelines) :
               name \notin {"@bg_ssbo_chunks", "@bg_entity"} /\ ~InCustomMap(name))
              => compiled[n].panic
        /\ ~compiled[n].panic =>
              \A i \in 1..Len(compileIn.config.pipelines) :
                  \A k \in 1..Len(compileIn.config.pipelines[i].bind_groups) :
                      LET def == compileIn.config.pipelines[i].bind_groups[k].def
                          layout == compiled[n].layouts[i][k]
                      IN def.tag = "Resource" =>
                            layout =
                               CASE def.name = "@bg_ssbo_chunks" ->
                                       [from |-> "wm", key |-> "ssbo"]
                                 [] def.name = "@bg_entity" ->
                                       [from |-> "wm", key |-> "entity"]
                                 [] OTHER -> [from |-> "custom", key |-> def.name]

\* A graph has been compiled from a pipeline that names @bg_entity and one
\* that names sky_uniforms, with a custom map that has an entry for both.
C34_Witness ==
    /\ compiled # <<>>
    /\ ~compiled[1].panic
    /\ NamedReferencesOf(compileIn.config.pipelines) = {"@bg_entity", "sky_uniforms"}
    /\ InCustomMap("@bg_entity")
    /\ InCustomMap("sky_uniforms")

C36_PipelineMapMirrorsConfig ==
    \A g \in CompiledGraphs :
        /\ g.config = compileIn.config.pipelines
        /\ Len(g.pipelines) = Len(g.config)
        /\ \A i \in 1..Len(g.pipelines) :
              /\ g.pipelines[i].name = g.config[i].name
              /\ g.pipelines[i].config = g.config[i]
              /\ {j \in 1..Len(g.config) : g.config[j].name = g.pipelines[i].name} = {i}

\* A graph of two pipelines has been compiled.
C36_Witness ==
    /\ compiled # <<>>
    /\ ~compiled[Len(compiled)].panic
    /\ Len(compiled[Len(compiled)].graph.pipelines) = 2
    /\ compiled[Len(compiled)].graph.pipelines[2].name = "terrain"

\* C37: a compilation of a configuration with a pipeline whose blend name is
\* none of the four presets aborts, whether or not the pipeline declares an
\* output target.
C37_UnknownBlendIsFatal ==
    (\E i \in 1..Len(compileIn.config.pipelines) :
        compileIn.config.pipelines[i].blending \notin
            {"alpha_blending", "premultiplied_alpha_blending", "replace",
             "color_add_alpha_blending"})
      => \A n \in 1..Len(compiled) : compiled[n].panic

\* The arguments of the compilation with every BufferArray the caller
\* supplies turned into a Buffer.
WithBuffersForArrays ==
    [compileIn EXCEPT !.resources =
        [id \in DOMAIN compileIn.resources |->
            IF compileIn.resources[id] = "BufferArray" THEN "Buffer"
            ELSE compileIn.resources[id]]]

\* C38: a compilation whose inline bind groups name a BufferArray resource
\* ends as the compilation of the same arguments with a Buffer in its place
\* ends: both return a graph or both abort.
C38_BufferArrayCompilesLikeBuffer ==
    [][compiled' # compiled =>
          compiled'[Len(compiled')].panic = NewGraph(WithBuffersForArrays, files).panic]_vars
====
